---- MODULE Spec2Model ----
(***************************************************************************)
(* Session memory and chat-turn pipeline of the NutriMood chatbot.         *)
(*                                                                         *)
(*   src/perplx/services/session_service.py   SessionService               *)
(*   src/perplx/main.py                       chat / generate_stream,      *)
(*                                            GET and DELETE /session      *)
(*   src/perplx/services/food_service.py      extract_food_ids_from_...    *)
(*                                                                         *)
(* Python objects are modelled with their identity: self.sessions maps a   *)
(* session id to a reference into `heap`, so that a request handler that   *)
(* kept the dict returned by get_or_create_session still sees that dict    *)
(* after the id was deleted and created again.  An object is released     *)
(* when nothing refers to it any more (CPython reference counting).        *)
(*                                                                         *)
(* All endpoints of main.py are `async def`: they run on one event loop    *)
(* and are interleaved only where the code awaits or yields.  Each action  *)
(* below is one such uninterrupted stretch of code.                        *)
(***************************************************************************)
EXTENDS Integers, Sequences, FiniteSets, TLC

(***************************************************************************)
(* Bounds of the model                                                     *)
(***************************************************************************)
MaxClock == 1
MaxObjs == 4
MaxCalls == 3
MaxRecs == 2
MaxAdds == 52
MaxEntries == 1
MaxCandidates == 2
MaxTopK == 4
MaxHistory == 3
MaxStall == 1

(***************************************************************************)
(* Program constants                                                       *)
(***************************************************************************)
max_history_length == 50
\* BEDROCK_RPM_LIMIT
rpm == 30

\* Python's None where a string, list or dict is expected
None == "None"
\* Python's None where a reference to a session dict is expected
NoRef == 0
\* a heap cell holding no object
Free == [free |-> TRUE]
\* get_food_by_id returning None
NoFood == [missing |-> TRUE]

SessionIds == {"s1", "u1"}
Tasks == {1, 2}
ObjIds == 1..MaxObjs

EmptyDict == [k \in {} |-> None]

\* dict.update(other): keys of `other` overwrite, every other key is kept
DictUpdate(d, other) ==
    [k \in (DOMAIN d) \cup (DOMAIN other) |->
        IF k \in DOMAIN other THEN other[k] ELSE d[k]]

\* seq[-n:] for n > 0
LastN(seq, n) ==
    IF Len(seq) <= n THEN seq ELSE SubSeq(seq, Len(seq) - n + 1, Len(seq))

VARIABLES
    sessions,   \* SessionService.sessions: session id -> reference, or None
    heap,       \* reference -> session dict, or Free
    clock,      \* what datetime.now() returns
    last,       \* the last service call: its name, arguments and return value
    turn,       \* the chat requests in flight, one record per event-loop task
    created,    \* history: session dicts created for an id since it was last absent
    turnLog,    \* history: messages appended under an id since it was last absent
    recLog,     \* history: recommendation entries appended, likewise
    prefLog,    \* history: the maps passed to update_preferences, likewise
    call,       \* the last call of a FoodService method or of a helper of main.py
    limiter,    \* server.py: the one GlobalRateLimiter (_global_rate_limiter)
    worker,     \* server.py: the threads that call wait_if_needed
    grants      \* history: how far apart the last two grants and returns were

memVars == <<sessions, heap, created, turnLog, recLog, prefLog>>
rateVars == <<limiter, worker, grants>>
restVars == <<sessions, heap, clock, last, turn, created, turnLog, recLog, prefLog, call>>
vars == <<sessions, heap, clock, last, turn, created, turnLog, recLog, prefLog, call,
          limiter, worker, grants>>

(***************************************************************************)
(* SessionService (session_service.py).  The methods are written as        *)
(* functions from a memory M (the store, the heap and the history logs)    *)
(* to the memory after the call, so that callers compose them the way      *)
(* main.py does.  `now` is the value of datetime.now() during the call.    *)
(***************************************************************************)
Mem ==
    [sessions |-> sessions, heap |-> heap, created |-> created,
     turnLog |-> turnLog, recLog |-> recLog, prefLog |-> prefLog]

\* the dict literal of get_or_create_session
NewSession(session_id, now) ==
    [session_id |-> session_id,
     created_at |-> now,
     last_activity |-> now,
     messages |-> <<>>,
     recommendations |-> <<>>,
     preferences |-> EmptyDict,
     metadata |-> EmptyDict]

\* a fresh object: the lowest free reference
Alloc(h) ==
    CHOOSE o \in ObjIds : h[o] = Free /\ \A p \in ObjIds : h[p] = Free => o <= p

HasRoom(M, session_id) ==
    M.sessions[session_id] # NoRef \/ \E o \in ObjIds : M.heap[o] = Free

\* variant: the dict is assigned without the membership test
get_or_create_session_Overwrite(M, session_id, now) ==
    LET o == Alloc(M.heap)
    IN  [M EXCEPT !.sessions[session_id] = o,
                  !.heap[o] = NewSession(session_id, now),
                  !.created[session_id] = @ + 1]

\* variant: an existing session is emptied when it is fetched
get_or_create_session_Reset(M, session_id, now) ==
    IF M.sessions[session_id] = NoRef
    THEN LET o == Alloc(M.heap)
         IN  [M EXCEPT !.sessions[session_id] = o,
                       !.heap[o] = NewSession(session_id, now),
                       !.created[session_id] = @ + 1]
    ELSE [M EXCEPT !.heap[M.sessions[session_id]].last_activity = now,
                   !.heap[M.sessions[session_id]].messages = <<>>]

\* variant: an existing session is returned without the activity update
get_or_create_session_NoBump(M, session_id, now) ==
    IF M.sessions[session_id] = NoRef
    THEN LET o == Alloc(M.heap)
         IN  [M EXCEPT !.sessions[session_id] = o,
                       !.heap[o] = NewSession(session_id, now),
                       !.created[session_id] = @ + 1]
    ELSE M

get_or_create_session(M, session_id, now) ==
    IF M.sessions[session_id] = NoRef
    THEN LET o == Alloc(M.heap)
         IN  [M EXCEPT !.sessions[session_id] = o,
                       !.heap[o] = NewSession(session_id, now),
                       !.created[session_id] = @ + 1]
    ELSE [M EXCEPT !.heap[M.sessions[session_id]].last_activity = now]

\* self.sessions.get(session_id): the reference, or None (NoRef)
get_session(M, session_id) == M.sessions[session_id]

delete_session(M, session_id) ==
    IF M.sessions[session_id] # NoRef
    THEN [M EXCEPT !.sessions[session_id] = NoRef,
                   !.created[session_id] = 0,
                   !.turnLog[session_id] = <<>>,
                   !.recLog[session_id] = <<>>,
                   !.prefLog[session_id] = <<>>]
    ELSE M

\* variant: True whether or not the id was there
delete_session_result_AlwaysTrue(M, session_id) == TRUE

delete_session_result(M, session_id) == M.sessions[session_id] # NoRef

\* variant: the slice keeps the head of the list
Trim_KeepOldest(messages) ==
    IF Len(messages) > max_history_length
    THEN SubSeq(messages, 1, max_history_length)
    ELSE messages

Trim(messages) ==
    IF Len(messages) > max_history_length
    THEN LastN(messages, max_history_length)
    ELSE messages

add_message(M, session_id, role, content, now) ==
    LET M1 == get_or_create_session(M, session_id, now)
        o == M1.sessions[session_id]
        message == [role |-> role, content |-> content, timestamp |-> now]
    IN  [M1 EXCEPT !.heap[o].messages = Trim(Append(@, message)),
                   !.heap[o].last_activity = now,
                   !.turnLog[session_id] = Append(@, message)]

\* `if limit` is false for None and for 0 alike: limit 0 stands for both
get_conversation_history(M, session_id, limit) ==
    IF get_session(M, session_id) = NoRef
    THEN <<>>
    ELSE LET messages == M.heap[get_session(M, session_id)].messages
         IN  IF limit # 0 THEN LastN(messages, limit) ELSE messages

\* variant: nothing is recorded for an empty list
add_recommendations_SkipEmpty(M, session_id, food_ids, now) ==
    LET M1 == get_or_create_session(M, session_id, now)
        o == M1.sessions[session_id]
        recommendation_entry == [food_ids |-> food_ids, timestamp |-> now]
    IN  IF food_ids = <<>>
        THEN M1
        ELSE [M1 EXCEPT !.heap[o].recommendations = Append(@, recommendation_entry),
                        !.heap[o].last_activity = now,
                        !.recLog[session_id] = Append(@, recommendation_entry)]

\* variant: an entry equal to the last one is not stored again
add_recommendations_Dedup(M, session_id, food_ids, now) ==
    LET M1 == get_or_create_session(M, session_id, now)
        o == M1.sessions[session_id]
        recommendation_entry == [food_ids |-> food_ids, timestamp |-> now]
        recommendations == M1.heap[o].recommendations
    IN  [M1 EXCEPT !.heap[o].recommendations =
                       IF @ # <<>> /\ @[Len(@)] = recommendation_entry
                       THEN @ ELSE Append(@, recommendation_entry),
                   !.heap[o].last_activity = now,
                   !.recLog[session_id] = Append(@, recommendation_entry)]

add_recommendations(M, session_id, food_ids, now) ==
    LET M1 == get_or_create_session(M, session_id, now)
        o == M1.sessions[session_id]
        recommendation_entry == [food_ids |-> food_ids, timestamp |-> now]
    IN  [M1 EXCEPT !.heap[o].recommendations = Append(@, recommendation_entry),
                   !.heap[o].last_activity = now,
                   !.recLog[session_id] = Append(@, recommendation_entry)]

\* variant: the map is assigned, not merged
update_preferences_Replace(M, session_id, preferences, now) ==
    LET M1 == get_or_create_session(M, session_id, now)
        o == M1.sessions[session_id]
    IN  [M1 EXCEPT !.heap[o].preferences = preferences,
                   !.heap[o].last_activity = now,
                   !.prefLog[session_id] = Append(@, preferences)]

update_preferences(M, session_id, preferences, now) ==
    LET M1 == get_or_create_session(M, session_id, now)
        o == M1.sessions[session_id]
    IN  [M1 EXCEPT !.heap[o].preferences = DictUpdate(@, preferences),
                   !.heap[o].last_activity = now,
                   !.prefLog[session_id] = Append(@, preferences)]

get_preferences(M, session_id) ==
    IF get_session(M, session_id) = NoRef
    THEN EmptyDict
    ELSE M.heap[get_session(M, session_id)].preferences

\* variant: a session exactly hours old is expired too
expired_sessions_AtLeast(M, hours, now) ==
    {session_id \in SessionIds :
        /\ M.sessions[session_id] # NoRef
        /\ now - M.heap[M.sessions[session_id]].last_activity >= hours}

\* lines 111-117; the clock counts hours
expired_sessions(M, hours, now) ==
    {session_id \in SessionIds :
        /\ M.sessions[session_id] # NoRef
        /\ now - M.heap[M.sessions[session_id]].last_activity > hours}

\* lines 119-120
clear_old_sessions(M, hours, now) ==
    LET expired == expired_sessions(M, hours, now)
        Cleared(log, empty) ==
            [session_id \in SessionIds |->
                IF session_id \in expired THEN empty ELSE log[session_id]]
    IN  [M EXCEPT !.sessions = Cleared(@, NoRef),
                  !.created = Cleared(@, 0),
                  !.turnLog = Cleared(@, <<>>),
                  !.recLog = Cleared(@, <<>>),
                  !.prefLog = Cleared(@, <<>>)]

\* line 122
clear_old_sessions_result(M, hours, now) ==
    Cardinality(expired_sessions(M, hours, now))

(***************************************************************************)
(* Strings are sequences of one-character strings, so that the str         *)
(* methods the code uses (lower, strip, split, replace, `in`) are          *)
(* computed and not assumed.                                               *)
(***************************************************************************)
UpperCase == <<"A", "B", "C", "D", "E", "F", "G", "H", "I", "J", "K", "L", "M", "N", "O", "P", "Q", "R", "S", "T", "U", "V", "W", "X", "Y", "Z">>
LowerCase == <<"a", "b", "c", "d", "e", "f", "g", "h", "i", "j", "k", "l", "m", "n", "o", "p", "q", "r", "s", "t", "u", "v", "w", "x", "y", "z">>

LowerOf ==
    [c \in {UpperCase[i] : i \in 1..26} |-> LowerCase[CHOOSE i \in 1..26 : UpperCase[i] = c]]

LowerChar(c) == IF c \in DOMAIN LowerOf THEN LowerOf[c] ELSE c

\* str.lower()
Lower(s) == [i \in 1..Len(s) |-> LowerChar(s[i])]

IsSpace(c) == c = " "

RECURSIVE LStrip(_)
LStrip(s) == IF s # <<>> /\ IsSpace(Head(s)) THEN LStrip(Tail(s)) ELSE s

RECURSIVE RStrip(_)
RStrip(s) ==
    IF s # <<>> /\ IsSpace(s[Len(s)]) THEN RStrip(SubSeq(s, 1, Len(s) - 1)) ELSE s

\* str.strip()
Strip(s) == RStrip(LStrip(s))

\* Python's `sub in s`
Contains(sub, s) ==
    \E i \in 0..(Len(s) - Len(sub)) : SubSeq(s, i + 1, i + Len(sub)) = sub

\* str.split(): the maximal runs of non-space characters
RECURSIVE SplitFrom(_, _, _)
SplitFrom(s, cur, acc) ==
    IF s = <<>>
    THEN IF cur = <<>> THEN acc ELSE Append(acc, cur)
    ELSE IF IsSpace(Head(s))
         THEN SplitFrom(Tail(s), <<>>, IF cur = <<>> THEN acc ELSE Append(acc, cur))
         ELSE SplitFrom(Tail(s), Append(cur, Head(s)), acc)

Split(s) == SplitFrom(s, <<>>, <<>>)

\* s.split('(')[0]
RECURSIVE BeforeParen(_)
BeforeParen(s) ==
    IF s = <<>> \/ Head(s) = "(" THEN <<>> ELSE <<Head(s)>> \o BeforeParen(Tail(s))

\* .replace('!', ' ').replace('?', ' ').replace('.', ' ').replace(',', ' ')
ReplacePunct(s) ==
    [i \in 1..Len(s) |-> IF s[i] \in {"!", "?", ".", ","} THEN " " ELSE s[i]]

InSeq(x, seq) == \E i \in 1..Len(seq) : seq[i] = x

\* Python truth value of a string-or-None
Truthy(x) == x # None /\ x # <<>>

(***************************************************************************)
(* FoodService (food_service.py): the catalog and the reconciler.          *)
(* A food dict carries its id under 'Id' or 'id' and its name under        *)
(* 'ProductName' or 'name'; a key the dict lacks is None here.             *)
(***************************************************************************)
Food(Id, id, ProductName, name) ==
    [Id |-> Id, id |-> id, ProductName |-> ProductName, name |-> name]

\* self.food_items, in file order
food_items ==
    << Food(<<"f", "1">>, None, <<"P", "e", "r", "i", " ", "P", "e", "r", "i", " ", "F", "r", "i", "e", "s">>, None),
       Food(None, <<"f", "2", " ">>, None, <<"C", "h", "e", "e", "s", "e", " ", "P", "o", "p", "p", "e", "r", "s", " ", "(", "6", ".", "P", "c", "s", ")">>),
       Food(<<"f", "3">>, None, <<"S", "a", "u", "t", "e", "e", "d", " ", "V", "e", "g", "e", "t", "a", "b", "l", "e", "s">>, None) >>

\* food.get('Id') or food.get('id')
FoodId(food) == IF Truthy(food.Id) THEN food.Id ELSE food.id

\* food.get('ProductName', '') or food.get('name', '')
FoodName(food) ==
    IF Truthy(food.ProductName) THEN food.ProductName
    ELSE IF food.name = None THEN <<>> ELSE food.name

\* the synonym dict of extract_food_ids_from_response, in insertion order
synonyms ==
    << <<<<"v", "e", "g", "g", "i", "e", "s">>, <<"v", "e", "g", "e", "t", "a", "b", "l", "e", "s">>>>,
       <<<<"v", "e", "g", "g", "i", "e">>, <<"v", "e", "g", "e", "t", "a", "b", "l", "e", "s">>>>,
       <<<<"f", "r", "i", "e", "s">>, <<"f", "r", "y">>>>,
       <<<<"b", "u", "r", "g", "e", "r">>, <<"b", "u", "r", "g", "e", "r">>>>,
       <<<<"p", "i", "z", "z", "a">>, <<"p", "i", "z", "z", "a">>>> >>

\* food_name_lower.split('(')[0].strip()
CleanName(food_name_lower) == Strip(BeforeParen(food_name_lower))

\* variant: the id is appended without looking for it in the list
AppendId_Always(mentioned_ids, food_id) ==
    LET food_id_str == Strip(food_id)
    IN  IF food_id_str # <<>>
        THEN Append(mentioned_ids, food_id_str)
        ELSE mentioned_ids

\* variant: the id is put in front of the list
AppendId_Front(mentioned_ids, food_id) ==
    LET food_id_str == Strip(food_id)
    IN  IF food_id_str # <<>> /\ ~InSeq(food_id_str, mentioned_ids)
        THEN <<food_id_str>> \o mentioned_ids
        ELSE mentioned_ids

\* food_id_str = str(food_id).strip(); append it unless empty or present
AppendId(mentioned_ids, food_id) ==
    LET food_id_str == Strip(food_id)
    IN  IF food_id_str # <<>> /\ ~InSeq(food_id_str, mentioned_ids)
        THEN Append(mentioned_ids, food_id_str)
        ELSE mentioned_ids

\* the condition under which the synonym loops reach their append
SynonymMatch(response_lower, clean_name) ==
    \E i \in 1..Len(synonyms) :
        LET synonym == synonyms[i][1]
            replacement == synonyms[i][2]
            other_words == SelectSeq(Split(clean_name),
                                     LAMBDA w : w # replacement /\ Len(w) > 3)
        IN  /\ Contains(synonym, response_lower)
            /\ Contains(replacement, clean_name)
            /\ \/ other_words = <<>>
               \/ \E j \in 1..Len(other_words) : Contains(other_words[j], response_lower)

\* name_words of Method 3
NameWords(clean_name) ==
    LET kept == SelectSeq(Split(clean_name), LAMBDA w : Len(w) > 3)
    IN  [i \in 1..Len(kept) |-> Strip(kept[i])]

\* len(words_found) of Method 3: the name words found, plus one entry per
\* synonym whose replacement is a name word
WordsFound(response_clean, name_words) ==
    Cardinality({i \in 1..Len(name_words) : Contains(name_words[i], response_clean)})
    + Cardinality({i \in 1..Len(synonyms) :
                      /\ Contains(synonyms[i][1], response_clean)
                      /\ InSeq(synonyms[i][2], name_words)})

\* variant: a fourth method, the longest word of the cleaned name, of more
\* than 4 characters, found in the response
MatchCandidate_SingleToken(mentioned_ids, food, response_lower, response_clean) ==
    LET food_id == FoodId(food)
        food_name == FoodName(food)
        food_name_lower == Lower(food_name)
        clean_name == CleanName(food_name_lower)
        after_synonyms ==
            IF SynonymMatch(response_lower, clean_name)
            THEN AppendId(mentioned_ids, food_id)
            ELSE mentioned_ids
        name_words == NameWords(clean_name)
        words == Split(clean_name)
    IN  IF ~Truthy(food_name) \/ ~Truthy(food_id) \/ Strip(food_id) = <<>>
        THEN mentioned_ids
        ELSE IF Contains(food_name_lower, response_lower)
        THEN AppendId(mentioned_ids, food_id)
        ELSE IF clean_name # <<>> /\ Contains(clean_name, response_lower)
        THEN AppendId(mentioned_ids, food_id)
        ELSE IF Len(name_words) >= 2 /\ WordsFound(response_clean, name_words) >= 2
        THEN AppendId(after_synonyms, food_id)
        ELSE IF \E i \in DOMAIN words :
                   /\ Len(words[i]) > 4
                   /\ \A j \in DOMAIN words : Len(words[j]) <= Len(words[i])
                   /\ Contains(words[i], response_clean)
        THEN AppendId(after_synonyms, food_id)
        ELSE after_synonyms

\* one iteration of the first loop (over food_matches)
MatchCandidate(mentioned_ids, food, response_lower, response_clean) ==
    LET food_id == FoodId(food)
        food_name == FoodName(food)
        food_name_lower == Lower(food_name)
        clean_name == CleanName(food_name_lower)
        after_synonyms ==
            IF SynonymMatch(response_lower, clean_name)
            THEN AppendId(mentioned_ids, food_id)
            ELSE mentioned_ids
        name_words == NameWords(clean_name)
    IN  IF ~Truthy(food_name) \/ ~Truthy(food_id) \/ Strip(food_id) = <<>>
        THEN mentioned_ids
        ELSE IF Contains(food_name_lower, response_lower)
        THEN AppendId(mentioned_ids, food_id)
        ELSE IF clean_name # <<>> /\ Contains(clean_name, response_lower)
        THEN AppendId(mentioned_ids, food_id)
        ELSE IF Len(name_words) >= 2 /\ WordsFound(response_clean, name_words) >= 2
        THEN AppendId(after_synonyms, food_id)
        ELSE after_synonyms

\* one iteration of the second loop (over self.food_items)
MatchCatalog(mentioned_ids, food, response_lower) ==
    LET food_id == FoodId(food)
        food_name == FoodName(food)
        food_name_lower == Lower(food_name)
        clean_name == CleanName(food_name_lower)
    IN  IF ~Truthy(food_name) \/ ~Truthy(food_id) \/ InSeq(Strip(food_id), mentioned_ids)
        THEN mentioned_ids
        ELSE IF \/ Contains(clean_name, response_lower)
                \/ Contains(food_name_lower, response_lower)
                \/ SynonymMatch(response_lower, clean_name)
        THEN AppendId(mentioned_ids, food_id)
        ELSE mentioned_ids

RECURSIVE FirstPass(_, _, _, _)
FirstPass(mentioned_ids, food_matches, response_lower, response_clean) ==
    IF food_matches = <<>> THEN mentioned_ids
    ELSE FirstPass(MatchCandidate(mentioned_ids, Head(food_matches).food,
                                  response_lower, response_clean),
                   Tail(food_matches), response_lower, response_clean)

\* variant: no second loop
SecondPass_None(mentioned_ids, foods, response_lower) == mentioned_ids

RECURSIVE SecondPass(_, _, _)
SecondPass(mentioned_ids, foods, response_lower) ==
    IF foods = <<>> THEN mentioned_ids
    ELSE SecondPass(MatchCatalog(mentioned_ids, Head(foods), response_lower),
                    Tail(foods), response_lower)

\* variant: without the early return for an empty food_matches
extract_food_ids_from_response_NoGuard(response, food_matches) ==
    LET response_lower == Lower(response)
        response_clean == ReplacePunct(response_lower)
    IN  SecondPass(FirstPass(<<>>, food_matches, response_lower, response_clean),
                   food_items, response_lower)

extract_food_ids_from_response(response, food_matches) ==
    LET response_lower == Lower(response)
        response_clean == ReplacePunct(response_lower)
    IN  IF food_matches = <<>>
        THEN <<>>
        ELSE SecondPass(FirstPass(<<>>, food_matches, response_lower, response_clean),
                        food_items, response_lower)

\* self.food_index of load_food_data: str(id).strip() -> item
IndexedFoods(food_id_str) ==
    {i \in 1..Len(food_items) :
        /\ Truthy(FoodId(food_items[i]))
        /\ Strip(FoodId(food_items[i])) # <<>>
        /\ Strip(FoodId(food_items[i])) = food_id_str}

\* FoodService.get_food_by_id against the local catalog: the item, or None (NoFood).
\* A later item with the same id replaces an earlier one in food_index; an
\* id the index lacks is looked for under either key, first item first.
get_food_by_id(food_id) ==
    IF ~Truthy(food_id) \/ Strip(food_id) = <<>>
    THEN NoFood
    ELSE LET food_id_str == Strip(food_id)
             hits == IndexedFoods(food_id_str)
             scan == {i \in 1..Len(food_items) :
                         \/ /\ food_items[i].Id # None
                            /\ Strip(food_items[i].Id) = food_id_str
                         \/ /\ food_items[i].id # None
                            /\ Strip(food_items[i].id) = food_id_str}
         IN  IF hits # {}
             THEN food_items[CHOOSE i \in hits : \A j \in hits : j <= i]
             ELSE IF scan # {}
             THEN food_items[CHOOSE i \in scan : \A j \in scan : i <= j]
             ELSE NoFood

(***************************************************************************)
(* main.py: the follow-up classifier                                       *)
(***************************************************************************)
contextual_refs == <<<<"t", "h", "e", "s", "e">>, <<"t", "h", "o", "s", "e">>, <<"t", "h", "e", "m">>, <<"i", "t">>, <<"t", "h", "a", "t">>, <<"t", "h", "i", "s">>, <<"w", "h", "i", "c", "h">>>>
food_property_words == <<<<"c", "a", "l", "o", "r", "i", "e">>, <<"n", "u", "t", "r", "i", "e", "n", "t">>, <<"p", "r", "i", "c", "e">>, <<"c", "o", "s", "t">>, <<"h", "o", "w", " ", "m", "u", "c", "h">>>>

AnyIn(words, text) == \E i \in 1..Len(words) : Contains(words[i], text)

\* variant: a query is a follow-up whether or not there is a history
is_followup_question_NoHistory(query, conversation_history) ==
    LET query_lower == Strip(Lower(query))
    IN  AnyIn(contextual_refs, query_lower) \/ AnyIn(food_property_words, query_lower)

is_followup_question(query, conversation_history) ==
    IF conversation_history = <<>>
    THEN FALSE
    ELSE LET query_lower == Strip(Lower(query))
         IN  AnyIn(contextual_refs, query_lower) \/ AnyIn(food_property_words, query_lower)

(***************************************************************************)
(* Retrieval (FoodService.find_matching_foods and PineconeService).  A menu
   item is a dict whose keys may be absent; scores are in hundredths.  `self`
   is the FoodService with what it reaches at query time: its catalog
   (food_items), whether it was constructed with an index (has_index) and
   with an embedding client (has_client), whether the embedding provider
   answers (embedding), whether the index answers (up), and the ranking the
   index holds (index: metadata with similarity, best first). *)

\* dict.get(key, default)
Get(d, key, default) == IF key \in DOMAIN d THEN d[key] ELSE default

\* ' '.join(parts)
RECURSIVE Join(_)
Join(parts) ==
    IF parts = <<>> THEN <<>>
    ELSE IF Len(parts) = 1 THEN parts[1]
    ELSE parts[1] \o <<" ">> \o Join(Tail(parts))

\* seq[:n]
Prefix(seq, n) == SubSeq(seq, 1, IF n < Len(seq) THEN n ELSE Len(seq))

\* list.sort(key=lambda x: x[1], reverse=True): stable, best score first
RECURSIVE SortByScore(_)
SortByScore(matches) ==
    IF matches = <<>> THEN <<>>
    ELSE LET n == Len(matches)
             sorted == SortByScore(SubSeq(matches, 1, n - 1))
             m == matches[n]
             k == Cardinality({i \in 1..(n - 1) : sorted[i].score >= m.score})
         IN  SubSeq(sorted, 1, k) \o <<m>> \o SubSeq(sorted, k + 1, n - 1)

\* _parse_json_field on a field that holds a list (or nothing)
parse_json_field(field_value) == field_value

greetings == {<<"h", "i">>, <<"h", "e", "l", "l", "o">>, <<"h", "e", "y">>}

build_contextual_query_trigger_words ==
    <<<<"s", "p", "e", "c", "i", "a", "l">>, <<"p", "o", "p", "u", "l", "a", "r">>, <<"s", "i", "g", "n", "a", "t", "u", "r", "e">>, <<"f", "a", "m", "o", "u", "s">>, <<"m", "u", "s", "t", " ", "t", "r", "y">>, <<"m", "u", "s", "t", "-", "t", "r", "y">>>>

RECURSIVE ContextParts(_)
ContextParts(messages) ==
    IF messages = <<>> THEN <<>>
    ELSE LET msg == Head(messages)
             content == Strip(Get(msg, "content", <<>>))
         IN  (IF /\ "role" \in DOMAIN msg
                 /\ msg.role = "user"
                 /\ content # <<>>
                 /\ Lower(content) \notin greetings
              THEN <<content>> ELSE <<>>) \o ContextParts(Tail(messages))

\* variant: the window is the last two USER turns of the history
build_contextual_query_UserTurns(query, conversation_history) ==
    LET query_lower == Strip(Lower(query))
    IN  IF query_lower \in greetings THEN query
        ELSE IF AnyIn(build_contextual_query_trigger_words, query_lower)
        THEN <<"N", "i", "l", "o", "u", "f", "e", "r", " ", "s", "p", "e", "c", "i", "a", "l", " ", "s", "i", "g", "n", "a", "t", "u", "r", "e", " ", "i", "t", "e", "m", "s", " ">> \o query
        ELSE Join(<<query>> \o ContextParts(LastN(
                 SelectSeq(conversation_history,
                     LAMBDA msg : "role" \in DOMAIN msg /\ msg.role = "user"), 2)))

\* _build_contextual_query: the context is taken from the last two MESSAGES
\* of the history
build_contextual_query(query, conversation_history) ==
    LET query_lower == Strip(Lower(query))
    IN  IF query_lower \in greetings THEN query
        ELSE IF AnyIn(build_contextual_query_trigger_words, query_lower)
        THEN <<"N", "i", "l", "o", "u", "f", "e", "r", " ", "s", "p", "e", "c", "i", "a", "l", " ", "s", "i", "g", "n", "a", "t", "u", "r", "e", " ", "i", "t", "e", "m", "s", " ">> \o query
        ELSE Join(<<query>> \o ContextParts(LastN(conversation_history, 2)))

\* _apply_filters
apply_filters(food, filters) ==
    LET calories == Get(food, "calories", 0)
    IN  /\ "category" \in DOMAIN filters =>
              /\ "KioskCategoryName" \in DOMAIN food
              /\ food.KioskCategoryName = filters.category
        /\ "max_calories" \in DOMAIN filters =>
              ~(calories # 0 /\ calories > filters.max_calories)
        /\ "min_calories" \in DOMAIN filters =>
              ~(calories = 0 \/ calories < filters.min_calories)

dietary_mappings ==
    << <<<<"h", "e", "a", "l", "t", "h", "y">>, <<<<"l", "o", "w", "-", "c", "a", "l", "o", "r", "i", "e">>, <<"h", "i", "g", "h", "-", "p", "r", "o", "t", "e", "i", "n">>, <<"l", "o", "w", "-", "f", "a", "t">>, <<"v", "e", "g", "e", "t", "a", "r", "i", "a", "n">>, <<"v", "e", "g", "a", "n">>>>>>,
       <<<<"j", "u", "n", "k">>, <<<<"f", "r", "i", "e", "d">>, <<"b", "u", "r", "g", "e", "r">>, <<"p", "i", "z", "z", "a">>, <<"f", "r", "i", "e", "s">>, <<"c", "h", "e", "e", "s", "e">>>>>>,
       <<<<"s", "p", "i", "c", "y">>, <<<<"s", "p", "i", "c", "y">>, <<"h", "o", "t">>, <<"c", "h", "i", "l", "i">>, <<"p", "e", "p", "p", "e", "r">>>>>>,
       <<<<"s", "w", "e", "e", "t">>, <<<<"s", "w", "e", "e", "t">>, <<"d", "e", "s", "s", "e", "r", "t">>, <<"c", "h", "o", "c", "o", "l", "a", "t", "e">>, <<"c", "a", "k", "e">>>>>>,
       <<<<"p", "r", "o", "t", "e", "i", "n">>, <<<<"h", "i", "g", "h", "-", "p", "r", "o", "t", "e", "i", "n">>, <<"c", "h", "i", "c", "k", "e", "n">>, <<"e", "g", "g">>, <<"m", "e", "a", "t">>>>>>,
       <<<<"v", "e", "g", "e", "t", "a", "r", "i", "a", "n">>, <<<<"v", "e", "g", "e", "t", "a", "r", "i", "a", "n">>, <<"v", "e", "g">>>>>>,
       <<<<"v", "e", "g", "a", "n">>, <<<<"v", "e", "g", "a", "n">>>>>> >>

\* _calculate_relevance_score, in hundredths
calculate_relevance_score(food, keywords, query) ==
    LET query_lower == Lower(query)
        name == Lower(Get(food, "ProductName", <<>>))
        description == Lower(Get(food, "Description", <<>>))
        category == Lower(Get(food, "KioskCategoryName", <<>>))
        subcategory == Lower(Get(food, "SubCategoryName", <<>>))
        dietary_info == parse_json_field(Get(food, "dietary", <<>>))
        dietary_str == Lower(Join(dietary_info))
        searchable_text ==
            name \o <<" ">> \o description \o <<" ">> \o category \o <<" ">>
                 \o subcategory \o <<" ">> \o dietary_str
        RECURSIVE KeywordScore(_)
        KeywordScore(kws) ==
            IF kws = <<>> THEN 0
            ELSE (IF Contains(Head(kws), searchable_text) THEN 100 ELSE 0)
                 + (IF Contains(Head(kws), name) THEN 200 ELSE 0)
                 + KeywordScore(Tail(kws))
        RECURSIVE DietScore(_)
        DietScore(mappings) ==
            IF mappings = <<>> THEN 0
            ELSE (IF /\ Contains(Head(mappings)[1], query_lower)
                     /\ \E i \in DOMAIN Head(mappings)[2] :
                            \/ Contains(Head(mappings)[2][i], searchable_text)
                            \/ Contains(Head(mappings)[2][i], dietary_str)
                  THEN 300 ELSE 0) + DietScore(Tail(mappings))
        low == Get(food, "calories", 1000)
        high == Get(food, "calories", 0)
    IN  (IF Contains(query_lower, name) THEN 1000 ELSE 0)
        + (IF AnyIn(keywords, category) THEN 500 ELSE 0)
        + (IF Contains(query_lower, description) THEN 400 ELSE 0)
        + KeywordScore(keywords)
        + DietScore(dietary_mappings)
        + (IF /\ Contains(<<"l", "o", "w", " ", "c", "a", "l", "o", "r", "i", "e">>, query_lower) \/ Contains(<<"h", "e", "a", "l", "t", "h", "y">>, query_lower)
              /\ low # 0 /\ low < 300
           THEN 200 ELSE 0)
        + (IF /\ Contains(<<"h", "i", "g", "h", " ", "c", "a", "l", "o", "r", "i", "e">>, query_lower) \/ Contains(<<"j", "u", "n", "k">>, query_lower)
              /\ high # 0 /\ high > 400
           THEN 200 ELSE 0)

\* the loop of _find_with_keyword_matching over self.food_items
RECURSIVE scored_foods(_, _, _, _)
scored_foods(foods, keywords, query, filters) ==
    IF foods = <<>> THEN <<>>
    ELSE LET food == Head(foods)
             rest == scored_foods(Tail(foods), keywords, query, filters)
         IN  IF DOMAIN filters # {} /\ ~apply_filters(food, filters) THEN rest
             ELSE LET score == calculate_relevance_score(food, keywords, query)
                  IN  IF score > 0 THEN <<[food |-> food, score |-> score]>> \o rest
                      ELSE rest

\* _find_with_keyword_matching
find_with_keyword_matching(self, query, top_k, filters) ==
    IF self.food_items = <<>> THEN <<>>
    ELSE Prefix(SortByScore(scored_foods(self.food_items, Split(Lower(query)),
                                         query, filters)), top_k)

\* EmbeddingService.generate_embedding: a vector, or None when the provider
\* is absent, fails or answers with nothing
\* (<<>>, as `not query_embedding` reads it)
generate_embedding(self, text) ==
    IF self.has_client /\ self.embedding THEN <<1>> ELSE <<>>

\* variant: vector search is enabled as soon as one of the two is there
use_vector_search_Either(self) == self.has_index \/ self.has_client

\* FoodService.__init__
use_vector_search(self) == self.has_index /\ self.has_client

\* PineconeService._build_pinecone_filter
build_pinecone_filter(filters) ==
    LET keys ==
            (IF "category" \in DOMAIN filters THEN {"category_name"} ELSE {})
            \cup (IF "max_calories" \in DOMAIN filters \/ "min_calories" \in DOMAIN filters
                  THEN {"calories"} ELSE {})
            \cup (IF Get(filters, "popular", FALSE) THEN {"is_popular"} ELSE {})
        bounds ==
            (IF "max_calories" \in DOMAIN filters THEN {"lte"} ELSE {})
            \cup (IF "min_calories" \in DOMAIN filters THEN {"gte"} ELSE {})
    IN  [k \in keys |->
            CASE k = "category_name" -> filters.category
              [] k = "calories" ->
                    [b \in bounds |-> IF b = "lte" THEN filters.max_calories
                                      ELSE filters.min_calories]
              [] k = "is_popular" -> TRUE]

\* the metadata filter as the index evaluates it: a record without the field
\* never matches
MetadataMatches(metadata, pinecone_filter) ==
    /\ "category_name" \in DOMAIN pinecone_filter =>
          /\ "category_name" \in DOMAIN metadata
          /\ metadata.category_name = pinecone_filter.category_name
    /\ "calories" \in DOMAIN pinecone_filter =>
          /\ "calories" \in DOMAIN metadata
          /\ "lte" \in DOMAIN pinecone_filter.calories =>
                metadata.calories <= pinecone_filter.calories.lte
          /\ "gte" \in DOMAIN pinecone_filter.calories =>
                metadata.calories >= pinecone_filter.calories.gte
    /\ "is_popular" \in DOMAIN pinecone_filter =>
          /\ "is_popular" \in DOMAIN metadata
          /\ metadata.is_popular

\* PineconeService._convert_metadata_to_food
convert_metadata_to_food(metadata) ==
    [Id |-> Get(metadata, "id", <<>>),
     ProductName |-> Get(metadata, "product_name", <<>>),
     Description |-> Get(metadata, "description", <<>>),
     KioskCategoryName |-> Get(metadata, "category_name", <<>>),
     SubCategoryName |-> Get(metadata, "sub_category", <<>>),
     calories |-> Get(metadata, "calories", 0),
     IsPopular |-> Get(metadata, "is_popular", FALSE),
     dietary |-> Get(metadata, "dietary_list", <<>>)]

\* index.query(vector, top_k, filter): the best top_k entries that match
index_query(self, top_k, pinecone_filter) ==
    Prefix(SelectSeq(self.index, LAMBDA e : MetadataMatches(e.metadata, pinecone_filter)),
           top_k)

\* PineconeService.search_foods: [] without an index and [] when the query
\* raises
search_foods(self, top_k, filters) ==
    IF ~self.has_index THEN <<>>
    ELSE IF ~self.up THEN <<>>
    ELSE LET matches_list ==
                 index_query(self, top_k,
                             IF DOMAIN filters # {} THEN build_pinecone_filter(filters)
                             ELSE EmptyDict)
         IN  [i \in DOMAIN matches_list |->
                 [food |-> convert_metadata_to_food(matches_list[i].metadata),
                  score |-> matches_list[i].score]]

signature_names ==
    <<<<"N", "i", "l", "o", "u", "f", "e", "r", " ", "S", "p", "e", "c", "i", "a", "l", " ", "T", "e", "a">>, <<"N", "i", "l", "o", "u", "f", "e", "r", " ", "S", "p", "e", "c", "i", "a", "l", " ", "C", "o", "f", "f", "e", "e">>, <<"M", "a", "s", "k", "a", " ", "B", "u", "n">>, <<"K", "h", "a", "r", "a", " ", "B", "u", "n">>>>

\* one iteration of the loop of _get_signature_items: the items found for
\* `name` and the calls made outside the service
signature_item(self, name) ==
    LET local == SelectSeq(self.food_items,
                     LAMBDA food : Lower(Get(food, "ProductName", <<>>)) = Lower(name))
    IN  IF local # <<>> THEN [items |-> <<local[1]>>, calls |-> <<>>]
        ELSE IF ~use_vector_search(self) THEN [items |-> <<>>, calls |-> <<>>]
        ELSE IF generate_embedding(self, name) = <<>>
        THEN [items |-> <<>>, calls |-> <<"generate_embedding">>]
        ELSE LET matches == search_foods(self, 1, EmptyDict)
             IN  [items |-> IF matches # <<>> THEN <<matches[1].food>> ELSE <<>>,
                  calls |-> <<"generate_embedding", "search_foods">>]

\* _get_signature_items
RECURSIVE get_signature_items(_, _)
get_signature_items(self, names) ==
    IF names = <<>> THEN [items |-> <<>>, calls |-> <<>>]
    ELSE LET first == signature_item(self, Head(names))
             rest == get_signature_items(self, Tail(names))
         IN  [items |-> first.items \o rest.items, calls |-> first.calls \o rest.calls]

Ids(matches) == [i \in DOMAIN matches |-> Get(matches[i].food, "Id", None)]

\* the first loop over signature_items: append those whose id is not among
\* the ids of the popular matches (existing_ids is computed once)
RECURSIVE AddSignature(_, _, _)
AddSignature(popular_matches, signature_items, existing_ids) ==
    IF signature_items = <<>> THEN popular_matches
    ELSE AddSignature(
            IF InSeq(Get(Head(signature_items), "Id", None), existing_ids)
            THEN popular_matches
            ELSE Append(popular_matches, [food |-> Head(signature_items), score |-> 100]),
            Tail(signature_items), existing_ids)

\* a second loop that appends whether or not the list is full
ForceSignature_Append(final_matches, signature_items, final_ids, top_k) ==
    LET missing == SelectSeq(signature_items,
                       LAMBDA sig_item : ~InSeq(Get(sig_item, "Id", None), final_ids))
    IN  final_matches \o [i \in DOMAIN missing |-> [food |-> missing[i], score |-> 100]]

\* final_matches[-1] = ... on an empty list raises IndexError
ForceSignatureRaises(final_matches, signature_items, final_ids, top_k) ==
    /\ final_matches = <<>>
    /\ Len(final_matches) >= top_k
    /\ \E i \in DOMAIN signature_items :
           ~InSeq(Get(signature_items[i], "Id", None), final_ids)

\* the second loop over signature_items: an item whose id is not among the
\* ids of the cut (final_ids is computed once) replaces the last match when
\* the list is full and is appended otherwise
RECURSIVE ForceSignature(_, _, _, _)
ForceSignature(final_matches, signature_items, final_ids, top_k) ==
    IF signature_items = <<>> THEN final_matches
    ELSE LET sig_item == Head(signature_items)
             forced == [food |-> sig_item, score |-> 100]
         IN  ForceSignature(
                IF InSeq(Get(sig_item, "Id", None), final_ids) THEN final_matches
                ELSE IF Len(final_matches) >= top_k
                THEN [final_matches EXCEPT ![Len(final_matches)] = forced]
                ELSE Append(final_matches, forced),
                Tail(signature_items), final_ids, top_k)

\* the matches the second loop overwrites, in order
RECURSIVE Evicted(_, _, _, _)
Evicted(final_matches, signature_items, final_ids, top_k) ==
    IF signature_items = <<>> THEN <<>>
    ELSE LET sig_item == Head(signature_items)
             missing == ~InSeq(Get(sig_item, "Id", None), final_ids)
             replaces == missing /\ Len(final_matches) >= top_k /\ final_matches # <<>>
         IN  (IF replaces THEN <<final_matches[Len(final_matches)]>> ELSE <<>>)
             \o Evicted(ForceSignature(final_matches, <<sig_item>>, final_ids, top_k),
                        Tail(signature_items), final_ids, top_k)

vector_search_trigger_words ==
    <<<<"s", "p", "e", "c", "i", "a", "l">>, <<"p", "o", "p", "u", "l", "a", "r">>, <<"s", "i", "g", "n", "a", "t", "u", "r", "e">>, <<"f", "a", "m", "o", "u", "s">>, <<"n", "i", "l", "o", "u", "f", "e", "r", " ", "s", "p", "e", "c", "i", "a", "l">>>>

\* the boost of _find_with_vector_search
Boost(matches) ==
    SortByScore([i \in DOMAIN matches |->
        LET name == Lower(Get(matches[i].food, "ProductName", <<>>))
        IN  IF Contains(<<"n", "i", "l", "o", "u", "f", "e", "r">>, name) \/ Contains(<<"s", "p", "e", "c", "i", "a", "l">>, name)
            THEN [matches[i] EXCEPT !.score = @ + 10]
            ELSE matches[i]])

\* _find_with_vector_search: the matches, the calls made outside the service
\* in order, whether the method raised instead of returning, the return
\* statement that ended it (path), the matches that were overwritten on the
\* way (evicted), and whether the popular sub-query was issued (specials)
find_with_vector_search(self, query, top_k, filters, original_query) ==
    IF generate_embedding(self, query) = <<>>
    THEN [matches |-> find_with_keyword_matching(self, query, top_k, filters),
          calls |-> <<"generate_embedding">>,
          raised |-> FALSE,
          path |-> "keyword_fallback",
          evicted |-> <<>>,
          specials |-> FALSE]
    ELSE
    LET enhanced_filters == filters
        detection_query ==
            IF original_query # <<>> THEN Lower(original_query) ELSE Lower(query)
        popular_matches ==
            IF AnyIn(vector_search_trigger_words, detection_query)
            THEN search_foods(self, top_k, DictUpdate(enhanced_filters, [popular |-> TRUE]))
            ELSE <<>>
        popular_calls ==
            IF AnyIn(vector_search_trigger_words, detection_query)
            THEN <<"generate_embedding", "search_foods">>
            ELSE <<"generate_embedding">>
    IN  IF popular_matches # <<>>
        THEN LET signature == get_signature_items(self, signature_names)
                 with_signature ==
                     SortByScore(AddSignature(popular_matches, signature.items,
                                              Ids(popular_matches)))
                 final_matches == Prefix(with_signature, top_k)
             IN  [matches |-> ForceSignature(final_matches, signature.items,
                                             Ids(final_matches), top_k),
                  calls |-> popular_calls \o signature.calls,
                  raised |-> ForceSignatureRaises(final_matches, signature.items,
                                                  Ids(final_matches), top_k),
                  path |-> "popular",
                  evicted |-> Evicted(final_matches, signature.items,
                                      Ids(final_matches), top_k),
                  specials |-> TRUE]
        ELSE LET matches == search_foods(self, top_k, enhanced_filters)
                 boost == \/ Contains(<<"s", "p", "e", "c", "i", "a", "l">>, detection_query)
                          \/ Contains(<<"n", "i", "l", "o", "u", "f", "e", "r">>, detection_query)
             IN  [matches |-> IF boost THEN Boost(matches) ELSE matches,
                  calls |-> Append(popular_calls, "search_foods"),
                  raised |-> FALSE,
                  path |-> IF boost THEN "boosted" ELSE "vector",
                  evicted |-> <<>>,
                  specials |-> AnyIn(vector_search_trigger_words, detection_query)]

\* find_matching_foods, with the query it handed on (enhanced_query)
find_matching_foods(self, query, conversation_history, top_k, filters) ==
    LET enhanced_query == build_contextual_query(query, conversation_history)
    IN  [enhanced_query |-> enhanced_query] @@
        IF use_vector_search(self)
        THEN find_with_vector_search(self, enhanced_query, top_k, filters, query)
        ELSE [matches |-> find_with_keyword_matching(self, enhanced_query, top_k, filters),
              calls |-> <<>>,
              raised |-> FALSE,
              path |-> "keyword",
              evicted |-> <<>>,
              specials |-> FALSE]

(***************************************************************************)
(* Inputs: what clients send, what the vector backend and the LLM return   *)
(***************************************************************************)
Queries == {<<"f", "r", "i", "e", "s">>, <<"P", "r", "i", "c", "e", "?">>}

\* request.user_name, request.user_id, request.user_preferences (None and {}
\* are alike to `if request.user_preferences`: EmptyDict stands for both)
PrefInputs ==
    { <<None, None, EmptyDict>>,
      <<"ann", "7", [diet |-> "veg"]>> }

\* maps passed to update_preferences by direct callers
PartialPrefs == { [diet |-> "vegan"], [name |-> "bob", diet |-> "veg"] }

Match(i, score) == [food |-> food_items[i], score |-> score]

\* find_matching_foods: the candidates are whatever the vector backend
\* returns for the query (scores in hundredths)
SearchResults ==
    { <<>>,
      <<Match(3, 80), Match(1, 70)>> }

\* lists of ids passed to add_recommendations by direct callers
IdLists == { <<>>, <<<<"f", "1">>>> }

\* the text deltas of one LLM answer, in arrival order
LLMResponses ==
    { <<>>,
      <<<<"T", "r", "y", " ", "P", "e", "r", "i", " ">>, <<"P", "e", "r", "i", " ", "F", "r", "i", "e", "s", "!">>>> }

(***************************************************************************)
(* State                                                                   *)
(***************************************************************************)
\* the locals of one chat request; `history` is conversation_history, the
\* list object get_conversation_history returned: `live` while it still is
\* the messages list of the dict `session`, else the list as it was left
IdleTurn ==
    [pc |-> "idle",
     message |-> <<>>,
     session_id |-> None,
     session |-> NoRef,
     history |-> [live |-> FALSE, snap |-> <<>>],
     is_followup |-> FALSE,
     food_matches |-> <<>>,
     chunks |-> <<>>,
     full_response |-> <<>>,
     recommended_ids |-> <<>>,
     assistant_turns |-> 0,        \* history: assistant messages this turn appended
     recommendation_events |-> 0,  \* history: recommendation entries it appended
     deltas |-> <<>>,              \* history: every delta of the LLM's answer
     steps |-> <<>>,               \* history: the steps of generate_stream so far
     reconciliations |-> 0,        \* history: calls of extract_food_ids_from_response
     reconciled_on |-> <<>>]       \* history: the text given to the last such call

(***************************************************************************)
(* GlobalRateLimiter (server.py).  Time is kept relative: what the model   *)
(* holds of last_request_time is how long ago it was (since_last_request), *)
(* counted in seconds up to AgeCap, beyond which the code treats all       *)
(* values alike.                                                           *)
(***************************************************************************)
Workers == {"w1", "w2", "w3"}

\* self.min_interval = 60.0 / self.rpm
min_interval == 60 \div rpm

\* ages are counted up to here
AgeCap == min_interval + MaxStall

Min(a, b) == IF a <= b THEN a ELSE b

\* a thread outside wait_if_needed
IdleWorker == [pc |-> "idle", wait_time |-> 0, slept |-> 0, since_read |-> 0]

\* GlobalRateLimiter.__init__: last_request_time = 0.0 lies far in the past,
\* the lock is free, no thread is in wait_if_needed
InitLimiter ==
    /\ limiter = [lock |-> "free", since_last_request |-> AgeCap]
    /\ worker = [w \in Workers |-> IdleWorker]
    /\ grants = [since_return |-> min_interval,
                 return_gap |-> min_interval,
                 stamp_gap |-> min_interval]

Init ==
    /\ sessions = [s \in SessionIds |-> NoRef]
    /\ heap = [o \in ObjIds |-> Free]
    /\ clock = 0
    /\ last = [op |-> "none", session_id |-> None, ret |-> None]
    /\ turn = [t \in Tasks |-> IdleTurn]
    /\ created = [s \in SessionIds |-> 0]
    /\ turnLog = [s \in SessionIds |-> <<>>]
    /\ recLog = [s \in SessionIds |-> <<>>]
    /\ prefLog = [s \in SessionIds |-> <<>>]
    /\ InitLimiter
    /\ call = [fn |-> "none"]

\* what the model's bounds count: the entries logged over all sessions
RECURSIVE Total(_, _)
Total(log, ids) ==
    IF ids = {} THEN 0
    ELSE LET s == CHOOSE x \in ids : TRUE
         IN  Len(log[s]) + Total(log, ids \ {s})

\* str(uuid.uuid4()): an id that no session and no request in flight has
UnseenIds ==
    {s \in SessionIds : sessions[s] = NoRef /\ \A t \in Tasks : turn[t].session_id # s}

\* the objects something still refers to
Refs(M, T) ==
    ({M.sessions[s] : s \in SessionIds} \cup {T[t].session : t \in Tasks}) \ {NoRef}

\* the memory and the tasks after a step; unreferenced dicts are released
SetMem(M, T) ==
    /\ sessions' = M.sessions
    /\ heap' = [o \in ObjIds |-> IF o \in Refs(M, T) THEN M.heap[o] ELSE Free]
    /\ created' = M.created
    /\ turnLog' = M.turnLog
    /\ recLog' = M.recLog
    /\ prefLog' = M.prefLog
    /\ turn' = T

Called(op, session_id, ret) ==
    /\ last' = [op |-> op, session_id |-> session_id, ret |-> ret]
    /\ UNCHANGED <<call, rateVars>>

\* add_message rebinds session["messages"] when it trims: a handler that
\* holds the old list keeps it, with the new message appended
WillTrim(M, session_id) ==
    /\ M.sessions[session_id] # NoRef
    /\ Len(M.heap[M.sessions[session_id]].messages) + 1 > max_history_length

KeepAliases(T, M, session_id, role, content, now) ==
    [t \in Tasks |->
        IF /\ WillTrim(M, session_id)
           /\ T[t].history.live
           /\ T[t].session = M.sessions[session_id]
        THEN [T[t] EXCEPT !.history =
                 [live |-> FALSE,
                  snap |-> Append(M.heap[M.sessions[session_id]].messages,
                                  [role |-> role, content |-> content,
                                   timestamp |-> now])]]
        ELSE T[t]]

(***************************************************************************)
(* Calls of the SessionService methods, one action per call.  GET and      *)
(* DELETE /session/{id} of main.py are GetSession and DeleteSession.       *)
(***************************************************************************)
GetOrCreateSession(session_id) ==
    /\ HasRoom(Mem, session_id)
    /\ LET M == get_or_create_session(Mem, session_id, clock)
       IN  /\ SetMem(M, turn)
           /\ Called("get_or_create_session", session_id, M.sessions[session_id])
    /\ UNCHANGED clock

\* variant: the lookup goes through get_or_create_session
GetSession_Creating(session_id) ==
    /\ HasRoom(Mem, session_id)
    /\ LET M == get_or_create_session(Mem, session_id, clock)
       IN  /\ SetMem(M, turn)
           /\ Called("get_session", session_id, M.sessions[session_id])
    /\ UNCHANGED clock

GetSession(session_id) ==
    /\ Called("get_session", session_id, get_session(Mem, session_id))
    /\ UNCHANGED <<memVars, turn, clock>>

DeleteSession(session_id) ==
    /\ SetMem(delete_session(Mem, session_id), turn)
    /\ Called("delete_session", session_id, delete_session_result(Mem, session_id))
    /\ UNCHANGED clock

AddMessage(session_id, role, content) ==
    /\ HasRoom(Mem, session_id)
    /\ SetMem(add_message(Mem, session_id, role, content, clock),
              KeepAliases(turn, Mem, session_id, role, content, clock))
    /\ Called("add_message", session_id, None)
    /\ UNCHANGED clock

GetConversationHistory(session_id, limit) ==
    /\ Called("get_conversation_history", session_id,
              get_conversation_history(Mem, session_id, limit))
    /\ UNCHANGED <<memVars, turn, clock>>

AddRecommendations(session_id, food_ids) ==
    /\ HasRoom(Mem, session_id)
    /\ SetMem(add_recommendations(Mem, session_id, food_ids, clock), turn)
    /\ Called("add_recommendations", session_id, None)
    /\ UNCHANGED clock

UpdatePreferences(session_id, preferences) ==
    /\ HasRoom(Mem, session_id)
    /\ SetMem(update_preferences(Mem, session_id, preferences, clock), turn)
    /\ Called("update_preferences", session_id, None)
    /\ UNCHANGED clock

GetPreferences(session_id) ==
    /\ Called("get_preferences", session_id, get_preferences(Mem, session_id))
    /\ UNCHANGED <<memVars, turn, clock>>

ClearOldSessions(hours) ==
    /\ SetMem(clear_old_sessions(Mem, hours, clock), turn)
    /\ Called("clear_old_sessions", None, clear_old_sessions_result(Mem, hours, clock))
    /\ UNCHANGED clock

\* time passes
Tick ==
    /\ clock < MaxClock
    /\ clock' = clock + 1
    /\ UNCHANGED <<memVars, last, turn, call, rateVars>>

(***************************************************************************)
(* POST /chat (main.py).  chat() runs to its return without awaiting;      *)
(* generate_stream() then runs from its start to the first yield, from     *)
(* one yield to the next, and from the last yield to its end.              *)
(***************************************************************************)
Request(message, session_id, user_name, user_id, user_preferences) ==
    [message |-> message, session_id |-> session_id, user_name |-> user_name,
     user_id |-> user_id, user_preferences |-> user_preferences]

\* current_prefs after lines 175-182
RequestedPrefs(current_prefs, request) ==
    LET named == IF request.user_name # None
                 THEN DictUpdate(current_prefs, [name |-> request.user_name])
                 ELSE current_prefs
        identified == IF request.user_id # None
                      THEN DictUpdate(named, [user_id |-> request.user_id])
                      ELSE named
    IN  IF request.user_preferences # EmptyDict
        THEN DictUpdate(identified, request.user_preferences)
        ELSE identified

HasPrefs(request) ==
    request.user_name # None \/ request.user_id # None
    \/ request.user_preferences # EmptyDict

\* lines 166-190: session, preferences, the user's message, the history
Chat(t, request, uuid) ==
    LET session_id == IF request.session_id # None THEN request.session_id ELSE uuid
        M1 == get_or_create_session(Mem, session_id, clock)
        session == M1.sessions[session_id]
        current_prefs == RequestedPrefs(M1.heap[session].preferences, request)
        M2 == IF HasPrefs(request)
              THEN update_preferences([M1 EXCEPT !.heap[session].preferences = current_prefs],
                                      session_id, current_prefs, clock)
              ELSE M1
        M3 == add_message(M2, session_id, "user", request.message, clock)
        T == KeepAliases(turn, M2, session_id, "user", request.message, clock)
    IN  /\ turn[t].pc = "idle"
        /\ \A u \in Tasks : u < t => turn[u].pc # "idle"
        /\ HasRoom(Mem, session_id)
        /\ SetMem(M3, [T EXCEPT ![t] =
                        [IdleTurn EXCEPT !.pc = "responding",
                                         !.message = request.message,
                                         !.session_id = session_id,
                                         !.session = session,
                                         !.history = [live |-> TRUE, snap |-> <<>>]]])
        /\ Called("chat", None, None)
        /\ UNCHANGED clock

\* conversation_history as the handler sees it
History(t) ==
    IF turn[t].history.live THEN heap[turn[t].session].messages ELSE turn[t].history.snap

\* lines 209-216: the foods of the previous recommendation, score 1.0
RECURSIVE FetchFoods(_)
FetchFoods(food_ids) ==
    IF food_ids = <<>> THEN <<>>
    ELSE LET food_item == get_food_by_id(Head(food_ids))
         IN  (IF food_item # NoFood THEN <<[food |-> food_item, score |-> 100]>> ELSE <<>>)
             \o FetchFoods(Tail(food_ids))

PreviousFoods(last_recommendations) ==
    LET previous_food_ids == last_recommendations[Len(last_recommendations)].food_ids
        valid_previous_ids ==
            SelectSeq(previous_food_ids, LAMBDA fid : Truthy(fid) /\ Strip(fid) # <<>>)
    IN  FetchFoods(SubSeq(valid_previous_ids, 1,
                          IF Len(valid_previous_ids) < 5 THEN Len(valid_previous_ids) ELSE 5))

\* lines 197-202: the turn takes its candidates from the last recommendation
Reuses(t) ==
    /\ is_followup_question(turn[t].message, History(t))
    /\ heap[turn[t].session].recommendations # <<>>

\* variant: every turn searches, a follow-up too
Candidates_Search(t) == SearchResults

\* lines 198-228: the candidate sets the turn may get
Candidates(t) ==
    LET last_recommendations == heap[turn[t].session].recommendations
    IN  IF Reuses(t)
        THEN {PreviousFoods(last_recommendations)}
        ELSE SearchResults

\* variant: the generator is left between lines 257 and 258
Complete_Interrupted(t, tr) ==
    LET M1 == add_message(Mem, tr.session_id, "assistant", tr.full_response, clock)
        T == KeepAliases(turn, Mem, tr.session_id, "assistant", tr.full_response, clock)
    IN  /\ HasRoom(Mem, tr.session_id)
        /\ SetMem(M1, [T EXCEPT ![t] =
                        [IdleTurn EXCEPT
                            !.pc = "cancelled",
                            !.session_id = tr.session_id,
                            !.assistant_turns =
                                Len(M1.turnLog[tr.session_id]) - Len(turnLog[tr.session_id])]])
        /\ Called("chat", None, None)
        /\ UNCHANGED clock

\* lines 246-294, for the locals tr: reconcile, save the assistant's answer
\* and the recommendation, send the final frame
Complete(t, tr) ==
    /\ HasRoom(Mem, tr.session_id)
    /\ \E recommended_ids \in
             {extract_food_ids_from_response(tr.full_response, tr.food_matches)} :
       \E M1 \in {add_message(Mem, tr.session_id, "assistant", tr.full_response, clock)} :
       \E M2 \in {add_recommendations(M1, tr.session_id, recommended_ids, clock)} :
          LET T == KeepAliases(turn, Mem, tr.session_id, "assistant",
                               tr.full_response, clock)
              finished ==
                  [IdleTurn EXCEPT
                      !.pc = "done",
                      !.session_id = tr.session_id,
                      !.food_matches = tr.food_matches,
                      !.full_response = tr.full_response,
                      !.recommended_ids = recommended_ids,
                      !.deltas = tr.deltas,
                      !.steps = Append(tr.steps, "reconcile"),
                      !.reconciliations = tr.reconciliations + 1,
                      !.reconciled_on = tr.full_response,
                      !.assistant_turns =
                          Len(M1.turnLog[tr.session_id]) - Len(turnLog[tr.session_id]),
                      !.recommendation_events =
                          Len(M2.recLog[tr.session_id]) - Len(recLog[tr.session_id])]
          IN  SetMem(M2, [T EXCEPT ![t] = finished])
    /\ Called("chat", None, None)
    /\ UNCHANGED clock

\* lines 194-243 up to the first yield: classify, get the candidates, call
\* the LLM, take its first delta.  An answer without text ends the turn here.
StreamBegin(t) ==
    /\ turn[t].pc = "responding"
    /\ \E food_matches \in Candidates(t), response \in LLMResponses :
          LET tr == [turn[t] EXCEPT
                        !.is_followup = is_followup_question(turn[t].message, History(t)),
                        !.food_matches = food_matches,
                        !.deltas = response,
                        !.steps = <<IF Reuses(t) THEN "reuse" ELSE "retrieve", "llm">>
                                  \o (IF response = <<>> THEN <<>> ELSE <<"chunk">>)]
          IN  IF response = <<>>
              THEN Complete(t, tr)
              ELSE /\ turn' = [turn EXCEPT ![t] =
                                 [tr EXCEPT !.pc = "streaming",
                                            !.full_response = Head(response),
                                            !.chunks = Tail(response)]]
                   /\ UNCHANGED <<memVars, clock, last, call, rateVars>>

\* lines 234-244: resumed after the characters of one delta, take the next
StreamChunk(t) ==
    /\ turn[t].pc = "streaming"
    /\ turn[t].chunks # <<>>
    /\ turn' = [turn EXCEPT ![t].full_response = @ \o Head(turn[t].chunks),
                            ![t].chunks = Tail(@),
                            ![t].steps = Append(@, "chunk")]
    /\ UNCHANGED <<memVars, clock, last, call, rateVars>>

\* variant: the reconciler does not wait for the last delta
PostResponse_Early(t) ==
    /\ turn[t].pc = "streaming"
    /\ Complete(t, turn[t])

\* resumed after the characters of the last delta
PostResponse(t) ==
    /\ turn[t].pc = "streaming"
    /\ turn[t].chunks = <<>>
    /\ Complete(t, turn[t])

\* the client goes away: the generator is closed where it is suspended, or
\* never started
Cancel(t) ==
    /\ turn[t].pc \in {"responding", "streaming"}
    /\ SetMem(Mem, [turn EXCEPT ![t] =
                      [IdleTurn EXCEPT !.pc = "cancelled",
                                       !.session_id = turn[t].session_id]])
    /\ UNCHANGED <<clock, last, call, rateVars>>

\* an exception leaves generate_stream before line 257 (nothing catches it)
StreamFail(t) ==
    /\ turn[t].pc \in {"responding", "streaming"}
    /\ SetMem(Mem, [turn EXCEPT ![t] =
                      [IdleTurn EXCEPT !.pc = "failed",
                                       !.session_id = turn[t].session_id]])
    /\ UNCHANGED <<clock, last, call, rateVars>>

(***************************************************************************)
(* The application: two clients, each sending one chat request, and        *)
(* DELETE /session requests at any time                                    *)
(***************************************************************************)
ChatRequests ==
    {Request(m, s, p[1], p[2], p[3]) :
        m \in Queries, s \in {"s1", None}, p \in PrefInputs}

Next ==
    \/ \E t \in Tasks, request \in ChatRequests, uuid \in UnseenIds \cup {None} :
          /\ (uuid = None) = (request.session_id # None)
          /\ Chat(t, request, uuid)
    \/ \E t \in Tasks : StreamBegin(t)
    \/ \E t \in Tasks : StreamChunk(t)
    \/ \E t \in Tasks : PostResponse(t)
    \/ \E t \in Tasks : Cancel(t)
    \/ \E t \in Tasks : StreamFail(t)
    \/ \E session_id \in SessionIds : DeleteSession(session_id)

Spec == Init /\ [][Next]_vars

(***************************************************************************)
(* The SessionService on its own: any sequence of calls of its methods     *)
(***************************************************************************)
\* entries logged over all sessions: what MaxCalls bounds
Logged == Total(turnLog, SessionIds) + Total(recLog, SessionIds) + Total(prefLog, SessionIds)

NextService ==
    \/ \E session_id \in SessionIds : GetOrCreateSession(session_id)
    \/ \E session_id \in SessionIds : GetSession(session_id)
    \/ \E session_id \in SessionIds : DeleteSession(session_id)
    \/ \E session_id \in SessionIds, role \in {"user", "assistant"} :
          /\ Logged < MaxCalls
          /\ AddMessage(session_id, role, CHOOSE q \in Queries : Len(q) = 5)
    \/ \E session_id \in SessionIds, limit \in {0, 1} :
          GetConversationHistory(session_id, limit)
    \/ \E session_id \in SessionIds, food_ids \in IdLists :
          /\ Logged < MaxCalls
          /\ AddRecommendations(session_id, food_ids)
    \/ \E session_id \in SessionIds, preferences \in PartialPrefs :
          /\ Logged < MaxCalls
          /\ UpdatePreferences(session_id, preferences)
    \/ \E session_id \in SessionIds : GetPreferences(session_id)

SpecService == Init /\ [][NextService]_vars

(***************************************************************************)
(* One session over time: the calls of the service on "s1" while the       *)
(* clock advances                                                          *)
(***************************************************************************)
NextActivity ==
    \/ GetOrCreateSession("s1")
    \/ GetSession("s1")
    \/ DeleteSession("s1")
    \/ \E role \in {"user", "assistant"} :
          /\ Logged < MaxCalls
          /\ AddMessage("s1", role, CHOOSE q \in Queries : Len(q) = 5)
    \/ \E limit \in {0, 1} : GetConversationHistory("s1", limit)
    \/ \E food_ids \in IdLists :
          /\ Logged < MaxCalls
          /\ AddRecommendations("s1", food_ids)
    \/ \E preferences \in PartialPrefs :
          /\ Logged < MaxCalls
          /\ UpdatePreferences("s1", preferences)
    \/ GetPreferences("s1")
    \/ Tick

SpecActivity == Init /\ [][NextActivity]_vars

(***************************************************************************)
(* Eviction: two sessions that age, clear_old_sessions with a threshold    *)
(* in hours, and the other calls that could remove a session               *)
(***************************************************************************)
Hours == {0, 1}

NextEviction ==
    \/ \E session_id \in SessionIds : GetOrCreateSession(session_id)
    \/ \E session_id \in SessionIds : GetSession(session_id)
    \/ \E session_id \in SessionIds : DeleteSession(session_id)
    \/ \E session_id \in SessionIds :
          /\ Logged < MaxEntries
          /\ AddMessage(session_id, "user", CHOOSE q \in Queries : Len(q) = 5)
    \/ \E session_id \in SessionIds :
          /\ Logged < MaxEntries
          /\ AddRecommendations(session_id, <<>>)
    \/ \E session_id \in SessionIds, preferences \in PartialPrefs :
          /\ Logged < MaxEntries
          /\ UpdatePreferences(session_id, preferences)
    \/ \E hours \in Hours : ClearOldSessions(hours)
    \/ Tick

SpecEviction == Init /\ [][NextEviction]_vars

(***************************************************************************)
(* Long histories: up to MaxAdds messages in one session, the n-th         *)
(* carrying the text <<n>>, roles alternating                              *)
(***************************************************************************)
NthRole(n) == IF n % 2 = 1 THEN "user" ELSE "assistant"

NextRetention ==
    \/ /\ Len(turnLog["s1"]) < MaxAdds
       /\ AddMessage("s1", NthRole(Len(turnLog["s1"]) + 1), <<Len(turnLog["s1"]) + 1>>)
    \/ \E food_ids \in IdLists :
          /\ Len(recLog["s1"]) < MaxRecs
          /\ AddRecommendations("s1", food_ids)
    \/ \E limit \in {0, 1} : GetConversationHistory("s1", limit)
    \/ DeleteSession("s1")

SpecRetention == Init /\ [][NextRetention]_vars

(***************************************************************************)
(* The FoodService methods and the helpers of main.py called on their own, *)
(* with the arguments and the result of the last call kept in `call`       *)
(***************************************************************************)
\* response texts
Responses ==
    { <<>>,
      <<"T", "r", "y", " ", "S", "a", "u", "t", "e", "e", "d", " ", "V", "e", "g", "e", "t", "a", "b", "l", "e", "s", " ", "o", "r", " ", "P", "e", "r", "i", " ", "P", "e", "r", "i", " ", "F", "r", "i", "e", "s", "!">>,
      <<"P", "e", "r", "i", " ", "P", "e", "r", "i", " ", "F", "r", "i", "e", "s", ",", " ", "t", "h", "e", "n", " ", "C", "h", "e", "e", "s", "e", " ", "P", "o", "p", "p", "e", "r", "s">>,
      <<"c", "h", "e", "e", "s", "e", " ", "p", "o", "p", "p", "e", "r", "s", " ", "a", "n", "d", " ", "v", "e", "g", "g", "i", "e", "s">>,
      <<"f", "r", "i", "e", "s">>,
      <<"S", "o", "r", "r", "y", ",", " ", "n", "o", "t", "h", "i", "n", "g", ".">>,
      <<"C", "H", "E", "E", "S", "E", " ", "P", "O", "P", "P", "E", "R", "S", " ", "(", "6", ".", "P", "C", "S", ")", " ", "a", "n", "d", " ", "s", "a", "u", "t", "e", "e", "d", " ", "v", "e", "g", "e", "t", "a", "b", "l", "e", "s">>,
      <<"v", "e", "g", "g", "i", "e", "s", ",", " ", "s", "a", "u", "t", "e", "e", "d">> }

\* food_matches: up to MaxCandidates catalog items (by their place in the
\* catalog) in any order, repeats included, and the whole catalog backwards
CandidatePicks ==
    UNION {[1..n -> 1..Len(food_items)] : n \in 0..MaxCandidates}
    \cup {[i \in 1..Len(food_items) |-> Len(food_items) + 1 - i]}

Candidate(pick) == [i \in DOMAIN pick |-> Match(pick[i], 100)]

\* a call that has its arguments and has not returned yet
Pending(fn) == call.fn = fn /\ "ret" \notin DOMAIN call

Return(ret) ==
    /\ call' = [k \in DOMAIN call \cup {"ret"} |-> IF k = "ret" THEN ret ELSE call[k]]
    /\ UNCHANGED <<memVars, clock, last, turn, rateVars>>

ExtractFoodIds ==
    /\ Pending("extract_food_ids_from_response")
    /\ Return(extract_food_ids_from_response(call.response, call.food_matches))

\* no session, no request in flight, and one call about to be made
InitFood ==
    /\ sessions = [s \in SessionIds |-> NoRef]
    /\ heap = [o \in ObjIds |-> Free]
    /\ clock = 0
    /\ last = [op |-> "none", session_id |-> None, ret |-> None]
    /\ turn = [t \in Tasks |-> IdleTurn]
    /\ created = [s \in SessionIds |-> 0]
    /\ turnLog = [s \in SessionIds |-> <<>>]
    /\ recLog = [s \in SessionIds |-> <<>>]
    /\ prefLog = [s \in SessionIds |-> <<>>]
    /\ InitLimiter
    /\ \/ \E response \in Responses, pick \in CandidatePicks :
             call = [fn |-> "extract_food_ids_from_response",
                     response |-> response,
                     food_matches |-> Candidate(pick)]

NextFood ==
    \/ ExtractFoodIds

SpecFood == InitFood /\ [][NextFood]_vars

(***************************************************************************)
(* find_matching_foods called on its own                                   *)
(***************************************************************************)
\* the catalog of the data file: optional fields are absent from some items
Menu ==
    << [Id |-> <<"1">>, ProductName |-> <<"N", "i", "l", "o", "u", "f", "e", "r", " ", "S", "p", "e", "c", "i", "a", "l", " ", "T", "e", "a">>,
        Description |-> <<"s", "i", "g", "n", "a", "t", "u", "r", "e", " ", "i", "r", "a", "n", "i", " ", "c", "h", "a", "i">>,
        KioskCategoryName |-> <<"B", "e", "v", "e", "r", "a", "g", "e", "s">>, calories |-> 120,
        dietary |-> <<<<"v", "e", "g", "e", "t", "a", "r", "i", "a", "n">>>>],
       [Id |-> <<"2">>, ProductName |-> <<"M", "a", "s", "k", "a", " ", "B", "u", "n">>,
        KioskCategoryName |-> <<"B", "a", "k", "e", "r", "y">>, calories |-> 250],
       [Id |-> <<"3">>, ProductName |-> <<"V", "e", "g", " ", "P", "u", "f", "f">>,
        Description |-> <<"p", "o", "p", "u", "l", "a", "r", " ", "f", "r", "i", "e", "d", " ", "s", "n", "a", "c", "k">>,
        KioskCategoryName |-> <<"S", "n", "a", "c", "k", "s">>, SubCategoryName |-> <<"P", "u", "f", "f", "s">>,
        calories |-> 310],
       [Id |-> <<"4">>, ProductName |-> <<"F", "r", "u", "i", "t", " ", "B", "o", "w", "l">>,
        KioskCategoryName |-> <<"S", "n", "a", "c", "k", "s">>] >>

Menus == << <<>>, Menu >>

\* what the index holds, ranked for the query vector (similarity in
\* hundredths)
PineconeIndex ==
    << [metadata |-> [id |-> <<"1">>, product_name |-> <<"N", "i", "l", "o", "u", "f", "e", "r", " ", "S", "p", "e", "c", "i", "a", "l", " ", "T", "e", "a">>,
                      category_name |-> <<"B", "e", "v", "e", "r", "a", "g", "e", "s">>, calories |-> 120,
                      is_popular |-> TRUE],
        score |-> 92],
       [metadata |-> [id |-> <<"3">>, product_name |-> <<"V", "e", "g", " ", "P", "u", "f", "f">>,
                      category_name |-> <<"S", "n", "a", "c", "k", "s">>, calories |-> 310,
                      is_popular |-> TRUE],
        score |-> 85],
       [metadata |-> [id |-> <<"2">>, product_name |-> <<"M", "a", "s", "k", "a", " ", "B", "u", "n">>,
                      category_name |-> <<"B", "a", "k", "e", "r", "y">>, calories |-> 250,
                      is_popular |-> FALSE],
        score |-> 80],
       [metadata |-> [id |-> <<"4">>, product_name |-> <<"F", "r", "u", "i", "t", " ", "B", "o", "w", "l">>,
                      category_name |-> <<"S", "n", "a", "c", "k", "s">>],
        score |-> 70] >>

\* an index of four popular items whose similarity is 1.0
TiedIndex ==
    << [metadata |-> [id |-> <<"3">>, product_name |-> <<"V", "e", "g", " ", "P", "u", "f", "f">>,
                      category_name |-> <<"S", "n", "a", "c", "k", "s">>, calories |-> 310,
                      is_popular |-> TRUE],
        score |-> 100],
       [metadata |-> [id |-> <<"4">>, product_name |-> <<"F", "r", "u", "i", "t", " ", "B", "o", "w", "l">>,
                      category_name |-> <<"S", "n", "a", "c", "k", "s">>, is_popular |-> TRUE],
        score |-> 100],
       [metadata |-> [id |-> <<"5">>, product_name |-> <<"O", "s", "m", "a", "n", "i", "a", " ", "B", "i", "s", "c", "u", "i", "t">>,
                      category_name |-> <<"B", "a", "k", "e", "r", "y">>, calories |-> 90,
                      is_popular |-> TRUE],
        score |-> 100],
       [metadata |-> [id |-> <<"6">>, product_name |-> <<"C", "h", "i", "c", "k", "e", "n", " ", "P", "u", "f", "f">>,
                      category_name |-> <<"S", "n", "a", "c", "k", "s">>, calories |-> 340,
                      is_popular |-> TRUE],
        score |-> 100] >>

Indexes == << <<>>, PineconeIndex, TiedIndex >>

\* a FoodService and its surroundings: without a client the provider never
\* answers, without an index there is nothing to be up
Service(items, has_index, up, index, has_client, embedding) ==
    [food_items |-> Menus[items],
     has_index |-> has_index,
     up |-> up,
     index |-> Indexes[index],
     has_client |-> has_client,
     embedding |-> embedding]

Backends ==
    {<<FALSE, FALSE, 1>>, <<TRUE, FALSE, 1>>, <<TRUE, TRUE, 1>>, <<TRUE, TRUE, 2>>,
     <<TRUE, TRUE, 3>>}
Providers == {<<FALSE, FALSE>>, <<TRUE, FALSE>>, <<TRUE, TRUE>>}

RetrieveQueries ==
    { <<"h", "i">>, <<"p", "o", "p", "u", "l", "a", "r", " ", "s", "n", "a", "c", "k", "s">>, <<"h", "e", "a", "l", "t", "h", "y">>, <<"S", "p", "e", "c", "i", "a", "l", " ", "T", "e", "a">>, <<"b", "u", "n">>,
      <<"a", " ", "m", "u", "s", "t", "-", "t", "r", "y">> }

RetrieveHistories ==
    { <<>>,
      <<[role |-> "user", content |-> <<"t", "e", "a">>],
        [role |-> "assistant", content |-> <<"T", "r", "y", " ", "t", "h", "e", " ", "M", "a", "s", "k", "a", " ", "B", "u", "n">>]>> }

FilterSets ==
    { EmptyDict, [category |-> <<"S", "n", "a", "c", "k", "s">>], [max_calories |-> 200],
      [category |-> <<"B", "a", "k", "e", "r", "y">>] }

FindMatchingFoods ==
    /\ Pending("find_matching_foods")
    /\ Return(find_matching_foods(call.self, call.query, call.conversation_history,
                                  call.top_k, call.filters))

InitRetrieve ==
    /\ sessions = [s \in SessionIds |-> NoRef]
    /\ heap = [o \in ObjIds |-> Free]
    /\ clock = 0
    /\ last = [op |-> "none", session_id |-> None, ret |-> None]
    /\ turn = [t \in Tasks |-> IdleTurn]
    /\ created = [s \in SessionIds |-> 0]
    /\ turnLog = [s \in SessionIds |-> <<>>]
    /\ recLog = [s \in SessionIds |-> <<>>]
    /\ prefLog = [s \in SessionIds |-> <<>>]
    /\ InitLimiter
    /\ \E items \in DOMAIN Menus, backend \in Backends, provider \in Providers,
          query \in RetrieveQueries, conversation_history \in RetrieveHistories,
          top_k \in 0..MaxTopK, filters \in FilterSets :
          call = [fn |-> "find_matching_foods",
                  self |-> Service(items, backend[1], backend[2], backend[3],
                                   provider[1], provider[2]),
                  query |-> query,
                  conversation_history |-> conversation_history,
                  top_k |-> top_k,
                  filters |-> filters]

NextRetrieve ==
    \/ FindMatchingFoods

SpecRetrieve == InitRetrieve /\ [][NextRetrieve]_vars

(***************************************************************************)
(* _is_followup_question and _build_contextual_query called on their own   *)
(***************************************************************************)
HistoryContents == { <<"t", "e", "a">>, <<" ", "H", "e", "y", " ">>, <<"s", "a", "m", "o", "s", "a">> }

HistoryMessages ==
    { [role |-> role, content |-> content] :
        role \in {"user", "assistant"}, content \in HistoryContents }

\* conversation histories of up to MaxHistory messages
Histories == UNION {[1..n -> HistoryMessages] : n \in 0..MaxHistory}

FollowupQueries ==
    { <<"t", "e", "a">>, <<"f", "r", "u", "i", "t", " ", "b", "o", "w", "l", " ", "p", "l", "e", "a", "s", "e">>, <<"H", "o", "w", " ", "M", "u", "c", "h", "?">>, <<" ", "T", "H", "I", "S", " ">>, <<"w", "h", "i", "c", "h", " ", "o", "n", "e">>,
      <<"a", "n", "y", " ", "n", "u", "t", "r", "i", "e", "n", "t", "s">>, <<"t", "h", "e", "s", "i", "s">>, <<>> }

ContextQueries ==
    { <<"h", "i">>, <<" ", "H", "e", "l", "l", "o", " ">>, <<"p", "o", "p", "u", "l", "a", "r", " ", "s", "n", "a", "c", "k", "s">>, <<"b", "u", "n">>, <<"h", "i", " ", "t", "h", "e", "r", "e">>, <<"a", " ", "m", "u", "s", "t", "-", "t", "r", "y">> }

IsFollowupQuestion ==
    /\ Pending("is_followup_question")
    /\ Return(is_followup_question(call.query, call.conversation_history))

BuildContextualQuery ==
    /\ Pending("build_contextual_query")
    /\ Return(build_contextual_query(call.query, call.conversation_history))

InitQuery ==
    /\ sessions = [s \in SessionIds |-> NoRef]
    /\ heap = [o \in ObjIds |-> Free]
    /\ clock = 0
    /\ last = [op |-> "none", session_id |-> None, ret |-> None]
    /\ turn = [t \in Tasks |-> IdleTurn]
    /\ created = [s \in SessionIds |-> 0]
    /\ turnLog = [s \in SessionIds |-> <<>>]
    /\ recLog = [s \in SessionIds |-> <<>>]
    /\ prefLog = [s \in SessionIds |-> <<>>]
    /\ InitLimiter
    /\ \/ \E query \in FollowupQueries,
             conversation_history \in {h \in Histories : Len(h) <= 1} :
             call = [fn |-> "is_followup_question",
                     query |-> query,
                     conversation_history |-> conversation_history]
       \/ \E query \in ContextQueries, conversation_history \in Histories :
             call = [fn |-> "build_contextual_query",
                     query |-> query,
                     conversation_history |-> conversation_history]

NextQuery ==
    \/ IsFollowupQuestion
    \/ BuildContextualQuery

SpecQuery == InitQuery /\ [][NextQuery]_vars

(***************************************************************************)
(* GlobalRateLimiter.wait_if_needed, called from the threads that run      *)
(* MCPClaudeServer.process_query.  One action per stretch of code between  *)
(* two points where the thread can be held up or time can pass.            *)
(***************************************************************************)
\* process_query reaches self.rate_limiter.wait_if_needed()
Call(w) ==
    /\ worker[w].pc = "idle"
    /\ worker' = [worker EXCEPT ![w].pc = "acquire"]
    /\ UNCHANGED <<limiter, grants, restVars>>

\* variant: a lock that lets every thread in
Acquire_NoLock(w) ==
    /\ worker[w].pc = "acquire"
    /\ limiter' = [limiter EXCEPT !.lock = w]
    /\ worker' = [worker EXCEPT ![w].pc = "locked"]
    /\ UNCHANGED <<grants, restVars>>

\* with self.lock: the thread gets the lock when no other thread holds it
Acquire(w) ==
    /\ worker[w].pc = "acquire"
    /\ limiter.lock = "free"
    /\ limiter' = [limiter EXCEPT !.lock = w]
    /\ worker' = [worker EXCEPT ![w].pc = "locked"]
    /\ UNCHANGED <<grants, restVars>>

\* current_time = time.time(); time_since_last = current_time -
\* self.last_request_time; the test; wait_time on the one branch
ReadClock(w) ==
    /\ worker[w].pc = "locked"
    /\ LET time_since_last == limiter.since_last_request
       IN  IF time_since_last < min_interval
           THEN worker' = [worker EXCEPT ![w] =
                              [pc |-> "sleep",
                               wait_time |-> min_interval - time_since_last,
                               slept |-> 0,
                               since_read |-> 0]]
           ELSE worker' = [worker EXCEPT ![w] =
                              [pc |-> "record", wait_time |-> 0, slept |-> 0,
                               since_read |-> 0]]
    /\ UNCHANGED <<limiter, grants, restVars>>

\* else: self.last_request_time = current_time (the time read since_read ago)
Record(w) ==
    /\ worker[w].pc = "record"
    /\ limiter' = [limiter EXCEPT !.since_last_request = worker[w].since_read]
    /\ grants' = [grants EXCEPT !.stamp_gap =
                     Min(limiter.since_last_request - worker[w].since_read, min_interval)]
    /\ worker' = [worker EXCEPT ![w] = [IdleWorker EXCEPT !.pc = "release"]]
    /\ UNCHANGED restVars

\* time.sleep(wait_time) returns, after wait_time at the least, and
\* self.last_request_time = time.time()
Wake(w) ==
    /\ worker[w].pc = "sleep"
    /\ worker[w].slept >= worker[w].wait_time
    /\ limiter' = [limiter EXCEPT !.since_last_request = 0]
    /\ grants' = [grants EXCEPT !.stamp_gap =
                     Min(limiter.since_last_request, min_interval)]
    /\ worker' = [worker EXCEPT ![w] = [IdleWorker EXCEPT !.pc = "release"]]
    /\ UNCHANGED restVars

\* the with block ends and wait_if_needed returns
Release(w) ==
    /\ worker[w].pc = "release"
    /\ limiter' = [limiter EXCEPT !.lock = IF limiter.lock = w THEN "free" ELSE @]
    /\ worker' = [worker EXCEPT ![w] = IdleWorker]
    /\ grants' = [grants EXCEPT !.return_gap = grants.since_return,
                                !.since_return = 0]
    /\ UNCHANGED restVars

\* one second passes; a thread that has read the clock and holds the lock
\* is held up for MaxStall seconds at the most before it goes on
TimePasses ==
    /\ \A w \in Workers : worker[w].pc = "record" => worker[w].since_read < MaxStall
    /\ limiter' = [limiter EXCEPT !.since_last_request = Min(@ + 1, AgeCap)]
    /\ worker' = [w \in Workers |->
                     [worker[w] EXCEPT
                        !.slept = IF worker[w].pc = "sleep"
                                  THEN Min(@ + 1, min_interval) ELSE @,
                        !.since_read = IF worker[w].pc = "record" THEN @ + 1 ELSE @]]
    /\ grants' = [grants EXCEPT !.since_return = Min(@ + 1, min_interval)]
    /\ UNCHANGED restVars

NextLimiter ==
    \/ \E w \in Workers : Call(w)
    \/ \E w \in Workers : Acquire(w)
    \/ \E w \in Workers : ReadClock(w)
    \/ \E w \in Workers : Record(w)
    \/ \E w \in Workers : Wake(w)
    \/ \E w \in Workers : Release(w)
    \/ TimePasses

SpecLimiter == Init /\ [][NextLimiter]_vars

\* every thread is scheduled again and again and time does not stop; a
\* thread that finds the lock free again and again gets it in the end
\* (threading.Lock names no order among the threads that wait for it: this
\* is what the operating system's scheduler gives in practice)
FairLimiter ==
    /\ SpecLimiter
    /\ \A w \in Workers :
          /\ SF_vars(Acquire(w))
          /\ WF_vars(ReadClock(w) \/ Record(w) \/ Wake(w) \/ Release(w))
    /\ WF_vars(TimePasses)

(***************************************************************************)
(* Properties                                                              *)
(***************************************************************************)
Present(session_id) == sessions[session_id] # NoRef

\* the stored session dict of a present id
Session(session_id) == heap[sessions[session_id]]

AssistantTurns(log) == Cardinality({i \in 1..Len(log) : log[i].role = "assistant"})

\* C1: the post-response phase is all-or-nothing.  A turn that completed
\* appended its assistant message and its recommendation entry, a turn that
\* was cancelled or failed appended neither, and no session ever holds an
\* assistant message of a turn without the entry that goes with it.
C1_PostResponseAtomic ==
    /\ \A t \in Tasks :
          /\ turn[t].assistant_turns = turn[t].recommendation_events
          /\ turn[t].pc = "done" => turn[t].assistant_turns = 1
          /\ turn[t].pc \in {"cancelled", "failed"} => turn[t].assistant_turns = 0
    /\ \A session_id \in SessionIds :
          /\ AssistantTurns(turnLog[session_id]) = Len(recLog[session_id])
          /\ Present(session_id) =>
                AssistantTurns(Session(session_id).messages)
                    = Len(Session(session_id).recommendations)

\* one turn completed and the other was abandoned while the same session
\* already held both user messages
C1_Witness ==
    \E t, u \in Tasks :
       /\ turn[t].pc = "done"
       /\ turn[u].pc \in {"cancelled", "failed"}
       /\ Present(turn[t].session_id)
       /\ Len(Session(turn[t].session_id).messages) = 3
       /\ Len(Session(turn[t].session_id).recommendations) = 1

\* C2: requests that interleave on one session id are serialised.  While
\* the id is present exactly one session object was created for it, its
\* messages are all the messages appended to it, in the order of the
\* appends, and so are its recommendation entries.
C2_Serialised ==
    \A session_id \in SessionIds :
       IF Present(session_id)
       THEN /\ created[session_id] = 1
            /\ Session(session_id).messages = LastN(turnLog[session_id], 50)
            /\ Session(session_id).recommendations = recLog[session_id]
       ELSE created[session_id] = 0

\* two turns on one session: both user messages came before either answer
C2_Witness ==
    \E session_id \in SessionIds :
       /\ Present(session_id)
       /\ Len(Session(session_id).messages) = 4
       /\ Session(session_id).messages[1].role = "user"
       /\ Session(session_id).messages[2].role = "user"
       /\ Session(session_id).messages[1].content # Session(session_id).messages[2].content
       /\ Len(Session(session_id).recommendations) = 2

\* C3: after N add_message calls on a session it holds min(N, 50) messages,
\* and they are the most recent ones: the i-th kept message is the
\* (N - kept + i)-th added.
C3_Retention ==
    Present("s1") =>
       LET N == Len(turnLog["s1"])
           messages == Session("s1").messages
           kept == IF N < 50 THEN N ELSE 50
       IN  /\ Len(messages) = kept
           /\ \A i \in 1..Len(messages) :
                 /\ messages[i].content = <<N - kept + i>>
                 /\ messages[i].role = NthRole(N - kept + i)

\* 52 messages were added: the first two are gone
C3_Witness ==
    /\ Present("s1")
    /\ Len(turnLog["s1"]) = 52
    /\ Len(Session("s1").messages) = 50
    /\ Session("s1").messages[1].content = <<3>>

\* C4: the step that completes a turn appends the assistant message and,
\* with it, exactly one recommendation entry whose food_ids are what
\* extract_food_ids_from_response gives for the full response and the
\* candidates of the turn, in that order, also when that list is empty.
C4_CompletionStep(t) ==
    LET session_id == turn'[t].session_id
        recommended_ids ==
            extract_food_ids_from_response(turn'[t].full_response, turn'[t].food_matches)
        entry == [food_ids |-> recommended_ids, timestamp |-> clock]
        before == IF Present(session_id)
                  THEN Session(session_id).recommendations ELSE <<>>
        after == heap'[sessions'[session_id]]
    IN  /\ sessions'[session_id] # NoRef
        /\ recLog'[session_id] = Append(recLog[session_id], entry)
        /\ after.recommendations = Append(before, entry)
        /\ Len(turnLog'[session_id]) = Len(turnLog[session_id]) + 1
        /\ after.messages[Len(after.messages)].role = "assistant"
        /\ after.messages[Len(after.messages)].content = turn'[t].full_response

C4_EventPerTurn ==
    [][\A t \in Tasks :
          (turn[t].pc # "done" /\ turn'[t].pc = "done") => C4_CompletionStep(t)]_vars

\* a completed turn whose answer named no food: its entry is there, empty
C4_Witness ==
    \E t \in Tasks :
       /\ turn[t].pc = "done"
       /\ turn[t].recommended_ids = <<>>
       /\ turn[t].food_matches # <<>>
       /\ Present(turn[t].session_id)
       /\ LET recommendations == Session(turn[t].session_id).recommendations
          IN  /\ recommendations # <<>>
              /\ recommendations[Len(recommendations)].food_ids = <<>>

\* C5: a session's recommendations are exactly the entries appended to it,
\* in order, none removed, merged or reordered, and its messages are a
\* contiguous suffix of the messages appended to it.
C5_AppendOnly ==
    Present("s1") =>
       /\ Session("s1").recommendations = recLog["s1"]
       /\ \E k \in 0..Len(turnLog["s1"]) :
             Session("s1").messages = LastN(turnLog["s1"], k)

\* two equal entries in a row are both kept, while messages were evicted
C5_Witness ==
    /\ Present("s1")
    /\ Len(Session("s1").recommendations) = 2
    /\ Session("s1").recommendations[1] = Session("s1").recommendations[2]
    /\ Len(turnLog["s1"]) > Len(Session("s1").messages)

RECURSIVE MergeLog(_)
\* the maps of a log merged in order, a later value replacing an earlier one
MergeLog(log) ==
    IF log = <<>>
    THEN EmptyDict
    ELSE LET earlier == MergeLog(SubSeq(log, 1, Len(log) - 1))
             latest == log[Len(log)]
         IN  [k \in DOMAIN earlier \cup DOMAIN latest |->
                 IF k \in DOMAIN latest THEN latest[k] ELSE earlier[k]]

\* C6: a session's preferences are the merge of all update_preferences
\* calls in order: a key has the value of the last call that gave it, and
\* keys a call does not mention keep their value.
C6_PreferenceMerge ==
    \A session_id \in SessionIds :
       Present(session_id) =>
          Session(session_id).preferences = MergeLog(prefLog[session_id])

\* two calls: the second replaced diet and left name alone
C6_Witness ==
    \E session_id \in SessionIds :
       /\ Present(session_id)
       /\ Len(prefLog[session_id]) = 2
       /\ "name" \notin DOMAIN prefLog[session_id][2]
       /\ "name" \in DOMAIN Session(session_id).preferences
       /\ Session(session_id).preferences["diet"] = prefLog[session_id][2]["diet"]
       /\ prefLog[session_id][1]["diet"] # prefLog[session_id][2]["diet"]

\* what a step leaves of the sessions other than session_id: all of it
OthersUnchanged(session_id) ==
    \A other \in SessionIds \ {session_id} :
       /\ sessions'[other] = sessions[other]
       /\ Present(other) => heap'[sessions[other]] = Session(other)

\* C7: get_or_create_session is idempotent.  On an absent id it creates a
\* session with no messages, no recommendations and no preferences; on a
\* present id it returns that same session and changes nothing of it but
\* last_activity, which becomes the current time.
C7_GetOrCreateIdempotent ==
    [][\A session_id \in SessionIds :
          GetOrCreateSession(session_id) =>
             /\ OthersUnchanged(session_id)
             /\ last'.ret = sessions'[session_id]
             /\ last'.ret # NoRef
             /\ IF Present(session_id)
                THEN /\ sessions'[session_id] = sessions[session_id]
                     /\ heap'[sessions'[session_id]] =
                           [Session(session_id) EXCEPT !.last_activity = clock]
                ELSE heap'[sessions'[session_id]] = NewSession(session_id, clock)]_vars

\* the call came back with a session that has content and is older than
\* its last activity
C7_Witness ==
    /\ last.op = "get_or_create_session"
    /\ Present(last.session_id)
    /\ last.ret = sessions[last.session_id]
    /\ Session(last.session_id).messages # <<>>
    /\ Session(last.session_id).created_at < Session(last.session_id).last_activity
    /\ Session(last.session_id).last_activity = clock

\* C8: delete_session returns True exactly when the id was present; after
\* it the id is absent, and every other session is as it was.
C8_DeleteReport ==
    [][\A session_id \in SessionIds :
          DeleteSession(session_id) =>
             /\ last'.ret = Present(session_id)
             /\ sessions'[session_id] = NoRef
             /\ OthersUnchanged(session_id)]_vars

\* a delete of an absent id reported False beside a session with content
C8_Witness ==
    /\ last.op = "delete_session"
    /\ last.ret = FALSE
    /\ created[last.session_id] = 0
    /\ \E other \in SessionIds \ {last.session_id} :
          /\ Present(other)
          /\ Session(other).messages # <<>>

Lookups == {"get_session", "get_conversation_history", "get_preferences"}

Mutators == {"get_or_create_session", "add_message", "add_recommendations",
             "update_preferences"}

\* what the lookup op returns for a present session without messages and
\* preferences is told apart from ret
DistinctFromEmpty(op, ret) ==
    CASE op = "get_session" -> ret = NoRef
      [] op = "get_conversation_history" -> ret # <<>>
      [] op = "get_preferences" -> ret # EmptyDict

\* C9 as stated: each of the lookups get_session, get_conversation_history
\* and get_preferences, on an id that is absent, answers with something that
\* a present but empty session would not give.
C9_Original ==
    (last.op \in Lookups /\ ~Present(last.session_id)) =>
        DistinctFromEmpty(last.op, last.ret)

\* C9: a lookup never changes the store.  get_session gives None exactly
\* for an absent id; get_conversation_history and get_preferences give, for
\* an absent id, the empty list and the empty dict, which is also what they
\* give for a present session that has none.
C9_Lookups ==
    [][\A session_id \in SessionIds :
          /\ GetSession(session_id) =>
                /\ UNCHANGED memVars
                /\ (last'.ret = NoRef) = ~Present(session_id)
          /\ (\E limit \in {0, 1} : GetConversationHistory(session_id, limit)) =>
                /\ UNCHANGED memVars
                /\ ~Present(session_id) => last'.ret = <<>>
                /\ (Present(session_id) /\ Session(session_id).messages = <<>>)
                       => last'.ret = <<>>
          /\ GetPreferences(session_id) =>
                /\ UNCHANGED memVars
                /\ ~Present(session_id) => last'.ret = EmptyDict
                /\ (Present(session_id) /\ Session(session_id).preferences = EmptyDict)
                       => last'.ret = EmptyDict]_vars

\* the history of an absent id came back empty while another session is
\* present and empty
C9_Witness ==
    /\ last.op = "get_conversation_history"
    /\ ~Present(last.session_id)
    /\ last.ret = <<>>
    /\ \E other \in SessionIds :
          /\ Present(other)
          /\ Session(other).messages = <<>>

\* last_activity of a session object never goes back
ActivityMonotone ==
    \A session_id \in SessionIds :
       (Present(session_id) /\ sessions'[session_id] = sessions[session_id]) =>
           heap'[sessions[session_id]].last_activity >= Session(session_id).last_activity

\* the call recorded by this step left its session stamped with the time
Stamped ==
    sessions'[last'.session_id] # NoRef =>
        heap'[sessions'[last'.session_id]].last_activity = clock'

\* C10 as stated: last_activity never decreases, and every call on a
\* session, the lookups included, sets it to the current time.
C10_Original ==
    [][/\ ActivityMonotone
       /\ (last' # last /\ last'.op \in Mutators \cup Lookups) => Stamped]_vars

\* C10: last_activity never decreases; get_or_create_session, add_message,
\* add_recommendations and update_preferences set it to the current time,
\* and so does every change of a session; the lookups get_session,
\* get_conversation_history and get_preferences leave it as it is.
C10_LastActivity ==
    [][/\ ActivityMonotone
       /\ (last' # last /\ last'.op \in Mutators) => Stamped
       /\ \A session_id \in SessionIds :
             (/\ sessions'[session_id] # NoRef
              /\ \/ sessions'[session_id] # sessions[session_id]
                 \/ heap'[sessions'[session_id]] # Session(session_id))
                => heap'[sessions'[session_id]].last_activity = clock'
       /\ (last' # last /\ last'.op \in Lookups) => UNCHANGED memVars]_vars

\* a lookup found a session whose last activity is in the past
C10_Witness ==
    /\ last.op \in Lookups
    /\ Present(last.session_id)
    /\ Session(last.session_id).last_activity < clock
    /\ Session(last.session_id).messages # <<>>

\* hours since the last activity of a present session
Age(session_id) == clock - Session(session_id).last_activity

\* C11: a session leaves the store only by delete_session or by
\* clear_old_sessions.  clear_old_sessions(hours) removes exactly the
\* sessions whose last activity is more than hours ago, returns their
\* number and leaves every other session as it was.
C11_Eviction ==
    [][/\ \A hours \in Hours :
             ClearOldSessions(hours) =>
                /\ \A session_id \in SessionIds :
                      IF Present(session_id) /\ Age(session_id) > hours
                      THEN sessions'[session_id] = NoRef
                      ELSE /\ sessions'[session_id] = sessions[session_id]
                           /\ Present(session_id) =>
                                 heap'[sessions[session_id]] = Session(session_id)
                /\ last'.ret = Cardinality({session_id \in SessionIds :
                                   Present(session_id) /\ Age(session_id) > hours})
       /\ \A session_id \in SessionIds :
             (Present(session_id) /\ sessions'[session_id] = NoRef) =>
                \/ last'.op = "delete_session" /\ last'.session_id = session_id
                \/ last'.op = "clear_old_sessions"]_vars

\* one session was evicted; the other, touched within the hour, is still
\* there with its message
C11_Witness ==
    /\ last.op = "clear_old_sessions"
    /\ last.ret = 1
    /\ \E session_id \in SessionIds :
          /\ Present(session_id)
          /\ Age(session_id) = 0
          /\ Session(session_id).created_at < clock
          /\ Session(session_id).messages # <<>>

Extracted == call.fn = "extract_food_ids_from_response" /\ "ret" \in DOMAIN call

\* the least i with seq[i] = x, 0 when there is none
IndexOf(x, seq) ==
    IF \E i \in 1..Len(seq) : seq[i] = x
    THEN CHOOSE i \in 1..Len(seq) : seq[i] = x /\ \A j \in 1..(i - 1) : seq[j] # x
    ELSE 0

\* where sub first starts in s, 0 when it does not occur
FirstIndex(sub, s) ==
    LET starts == {i \in 1..(Len(s) - Len(sub) + 1) : SubSeq(s, i, i + Len(sub) - 1) = sub}
    IN  IF sub = <<>> \/ starts = {} THEN 0
        ELSE CHOOSE i \in starts : \A j \in starts : i <= j

\* C12: the list extract_food_ids_from_response returns holds no id twice,
\* whichever matching methods fire for an item, however often the item is
\* among the candidates, and whether the candidate pass or the catalog pass
\* meets it.
C12_NoDuplicateIds ==
    Extracted =>
        \A i, j \in 1..Len(call.ret) : call.ret[i] = call.ret[j] => i = j

\* the same item twice among the candidates, named in full in the response
\* (so that the catalog pass meets it again), and one more id from the
\* catalog pass alone
C12_Witness ==
    /\ Extracted
    /\ Len(call.food_matches) = 2
    /\ call.food_matches[1] = call.food_matches[2]
    /\ Contains(Lower(FoodName(call.food_matches[1].food)), Lower(call.response))
    /\ Len(call.ret) = 2
    /\ call.ret[1] = Strip(FoodId(call.food_matches[1].food))

\* where the ids come from, in scan order: the candidates, then the catalog
ScanIds(food_matches) ==
    [i \in 1..Len(food_matches) |-> Strip(FoodId(food_matches[i].food))]
    \o [i \in 1..Len(food_items) |-> Strip(FoodId(food_items[i]))]

\* where the full name of a candidate first starts in the response
NamePos(match, response) == FirstIndex(Lower(FoodName(match.food)), Lower(response))

\* C13 as stated: of two candidates whose names are in the response and
\* whose ids are in the output, the one named first in the text comes
\* first in the output.
C13_Original ==
    Extracted =>
        \A a, b \in 1..Len(call.food_matches) :
           LET A == call.food_matches[a]
               B == call.food_matches[b]
               idA == IndexOf(Strip(FoodId(A.food)), call.ret)
               idB == IndexOf(Strip(FoodId(B.food)), call.ret)
           IN  (/\ NamePos(A, call.response) > 0
                /\ NamePos(A, call.response) < NamePos(B, call.response)
                /\ idA > 0 /\ idB > 0) => idA < idB

\* C13: the output is in scan order, not in text order: of two ids in the
\* output, the one whose item is met first in the candidate sequence, or
\* failing that in the catalog, comes first, wherever the names stand in
\* the response.
C13_ScanOrder ==
    Extracted =>
        \A i, j \in 1..Len(call.ret) :
           i < j => IndexOf(call.ret[i], ScanIds(call.food_matches))
                      < IndexOf(call.ret[j], ScanIds(call.food_matches))

\* two candidates, both named in the response, the second one first
C13_Witness ==
    /\ Extracted
    /\ Len(call.food_matches) = 2
    /\ NamePos(call.food_matches[2], call.response) > 0
    /\ NamePos(call.food_matches[2], call.response)
          < NamePos(call.food_matches[1], call.response)
    /\ call.ret = <<Strip(FoodId(call.food_matches[1].food)),
                    Strip(FoodId(call.food_matches[2].food))>>

(***************************************************************************)
(* C14: find_matching_foods returns at most top_k candidates on every      *)
(* path: the popular path with its forced signature items, the plain and   *)
(* the boosted vector search, and both keyword searches (the index itself  *)
(* answers with at most top_k entries).                                    *)
(***************************************************************************)
Returned(fn) == call.fn = fn /\ "ret" \in DOMAIN call

C14_AtMostTopK ==
    Returned("find_matching_foods") => Len(call.ret.matches) <= call.top_k

\* the popular path returned a full list although the signature items alone
\* outnumber top_k
C14_Witness ==
    /\ Returned("find_matching_foods")
    /\ call.ret.path = "popular"
    /\ call.top_k > 0
    /\ Len(call.ret.matches) = call.top_k
    /\ Len(get_signature_items(call.self, signature_names).items) > call.top_k

(***************************************************************************)
(* C15: with vector search enabled, when the embedding provider returns no *)
(* vector or the index fails at query time, find_matching_foods does not   *)
(* raise and returns what the keyword search computes over the local       *)
(* catalog for the query.                                                  *)
(***************************************************************************)
KeywordResult ==
    find_with_keyword_matching(call.self,
        build_contextual_query(call.query, call.conversation_history),
        call.top_k, call.filters)

C15_Fallback ==
    ( /\ Returned("find_matching_foods")
      /\ use_vector_search(call.self)
      /\ \/ generate_embedding(call.self, call.query) = <<>>
         \/ ~call.self.up )
    => /\ ~call.ret.raised
       /\ call.ret.matches = KeywordResult

\* the index failed at query time, the keyword search has candidates for
\* the query, and the caller got nothing
C15_Witness ==
    /\ Returned("find_matching_foods")
    /\ use_vector_search(call.self)
    /\ generate_embedding(call.self, call.query) # <<>>
    /\ ~call.self.up
    /\ KeywordResult # <<>>
    /\ call.ret.matches = <<>>
    /\ "search_foods" \in {call.ret.calls[i] : i \in DOMAIN call.ret.calls}

KnownCalories(food) == "calories" \in DOMAIN food /\ food.calories # 0

Satisfies(food, filters) ==
    /\ "category" \in DOMAIN filters =>
          /\ "KioskCategoryName" \in DOMAIN food
          /\ food.KioskCategoryName = filters.category
    /\ ("max_calories" \in DOMAIN filters /\ KnownCalories(food)) =>
          food.calories <= filters.max_calories

C17_FiltersHold ==
    Returned("find_matching_foods") =>
        \A i \in DOMAIN call.ret.matches :
            Satisfies(call.ret.matches[i].food, call.filters)

\* the popular path returned a forced signature item of another category
C17_Witness ==
    /\ Returned("find_matching_foods")
    /\ call.ret.path = "popular"
    /\ "category" \in DOMAIN call.filters
    /\ \E i \in DOMAIN call.ret.matches :
          /\ call.ret.matches[i].score = 100
          /\ call.ret.matches[i].food.KioskCategoryName # call.filters.category

(***************************************************************************)
(* C18: _is_followup_question answers False for an empty history; for a    *)
(* non-empty one it answers True exactly when the lowercased query         *)
(* contains, anywhere, one of these, those, them, it, that, this, which,   *)
(* calorie, nutrient, price, cost, how much.                               *)
(***************************************************************************)
C18_Followup ==
    Returned("is_followup_question") =>
        call.ret =
            ( /\ call.conversation_history # <<>>
              /\ \E word \in { <<"t", "h", "e", "s", "e">>, <<"t", "h", "o", "s", "e">>, <<"t", "h", "e", "m">>, <<"i", "t">>, <<"t", "h", "a", "t">>,
                               <<"t", "h", "i", "s">>, <<"w", "h", "i", "c", "h">>, <<"c", "a", "l", "o", "r", "i", "e">>, <<"n", "u", "t", "r", "i", "e", "n", "t">>,
                               <<"p", "r", "i", "c", "e">>, <<"c", "o", "s", "t">>, <<"h", "o", "w", " ", "m", "u", "c", "h">> } :
                     Contains(word, Lower(call.query)) )

\* `it` inside another word is enough
C18_Witness ==
    /\ Returned("is_followup_question")
    /\ call.query = <<"f", "r", "u", "i", "t", " ", "b", "o", "w", "l", " ", "p", "l", "e", "a", "s", "e">>
    /\ call.conversation_history # <<>>
    /\ call.ret = TRUE

(***************************************************************************)
(* C19 as stated: for a query that is no bare greeting and has no trigger  *)
(* word, _build_contextual_query returns the query followed by the last    *)
(* two user turns of the history, assistant turns not counted, bare        *)
(* greetings left out.                                                     *)
(***************************************************************************)
PlainContextQuery ==
    /\ Returned("build_contextual_query")
    /\ Strip(Lower(call.query)) \notin { <<"h", "i">>, <<"h", "e", "l", "l", "o">>, <<"h", "e", "y">> }
    /\ \A word \in { <<"s", "p", "e", "c", "i", "a", "l">>, <<"p", "o", "p", "u", "l", "a", "r">>, <<"s", "i", "g", "n", "a", "t", "u", "r", "e">>, <<"f", "a", "m", "o", "u", "s">>,
                     <<"m", "u", "s", "t", " ", "t", "r", "y">>, <<"m", "u", "s", "t", "-", "t", "r", "y">> } :
           ~Contains(word, Lower(call.query))

\* the stripped contents of the user turns of `messages` that are neither
\* empty nor a bare greeting
UserContext(messages) ==
    LET kept == SelectSeq(messages,
                    LAMBDA msg : /\ msg.role = "user"
                                 /\ Strip(msg.content) # <<>>
                                 /\ Lower(Strip(msg.content)) \notin
                                        { <<"h", "i">>, <<"h", "e", "l", "l", "o">>, <<"h", "e", "y">> })
    IN  [i \in DOMAIN kept |-> Strip(kept[i].content)]

UserTurns(messages) == SelectSeq(messages, LAMBDA msg : msg.role = "user")

C19_Original ==
    PlainContextQuery =>
        call.ret = Join(<<call.query>>
                        \o UserContext(LastN(UserTurns(call.conversation_history), 2)))

(***************************************************************************)
(* C19 as the code has it: the query is followed by the user turns found   *)
(* among the last two MESSAGES of the history, so an assistant turn in     *)
(* that window takes the place of a user turn.                             *)
(***************************************************************************)
C19_LastTwoMessages ==
    PlainContextQuery =>
        call.ret = Join(<<call.query>>
                        \o UserContext(LastN(call.conversation_history, 2)))

\* an assistant turn closes the history and an older user turn falls out of
\* the window
C19_Witness ==
    /\ PlainContextQuery
    /\ Len(call.conversation_history) = 3
    /\ call.conversation_history[1] = [role |-> "user", content |-> <<"s", "a", "m", "o", "s", "a">>]
    /\ call.conversation_history[2] = [role |-> "user", content |-> <<"t", "e", "a">>]
    /\ call.conversation_history[3].role = "assistant"
    /\ call.ret = call.query \o <<" ", "t", "e", "a">>

(***************************************************************************)
(* C20: the steps of a chat turn come in one order.  The candidates are    *)
(* there (retrieved, or reused for a follow-up) before the LLM is called;  *)
(* extract_food_ids_from_response is called once, after the last delta has *)
(* been received, on all the deltas put together, and never on a part of   *)
(* the answer.                                                             *)
(***************************************************************************)
RECURSIVE Concat(_)
Concat(parts) == IF parts = <<>> THEN <<>> ELSE Head(parts) \o Concat(Tail(parts))

C20_TurnOrder ==
    \A t \in Tasks :
        LET tr == turn[t]
        IN  /\ tr.pc = "done" =>
                  /\ Len(tr.steps) = Len(tr.deltas) + 3
                  /\ tr.steps[1] \in {"retrieve", "reuse"}
                  /\ tr.steps[2] = "llm"
                  /\ \A i \in 3..(Len(tr.steps) - 1) : tr.steps[i] = "chunk"
                  /\ tr.steps[Len(tr.steps)] = "reconcile"
                  /\ tr.reconciliations = 1
                  /\ tr.reconciled_on = Concat(tr.deltas)
            /\ tr.pc # "done" =>
                  /\ tr.reconciliations = 0
                  /\ \A i \in DOMAIN tr.steps : tr.steps[i] # "reconcile"
                  /\ tr.steps # <<>> =>
                        /\ tr.steps[1] \in {"retrieve", "reuse"}
                        /\ tr.steps[2] = "llm"

\* a follow-up turn that reused the last recommendation and whose answer
\* came in two deltas
C20_Witness ==
    \E t \in Tasks :
        /\ turn[t].pc = "done"
        /\ turn[t].steps = <<"reuse", "llm", "chunk", "chunk", "reconcile">>
        /\ Len(turn[t].deltas) = 2
        /\ turn[t].reconciled_on = turn[t].deltas[1] \o turn[t].deltas[2]

(***************************************************************************)
(* C21 as stated: a follow-up turn in a session that has a recommendation  *)
(* does not search and offers the LLM the candidates of the previous turn, *)
(* the same items in the same order.                                       *)
(***************************************************************************)
Foods(food_matches) == [i \in DOMAIN food_matches |-> food_matches[i].food]

\* turn t took its candidates from the recommendation turn u had recorded
ReusedFrom(t, u) ==
    /\ u # t
    /\ turn[t].steps # <<>>
    /\ turn[t].steps[1] = "reuse"
    /\ turn[u].pc = "done"
    /\ turn[u].session_id = turn[t].session_id

IsSignature(food) ==
    \E i \in DOMAIN signature_names :
        Lower(Get(food, "ProductName", <<>>)) = Lower(signature_names[i])

\* a call that reaches the trigger-word test of the vector path with an
\* index that answers
PopularRequest ==
    /\ Returned("find_matching_foods")
    /\ call.self.has_index /\ call.self.has_client
    /\ call.self.embedding /\ call.self.up
    /\ AnyIn(vector_search_trigger_words, Lower(call.query))

C22_SignatureIncluded ==
    (PopularRequest /\ call.top_k >= Len(signature_names)) =>
        \A i \in DOMAIN call.self.food_items :
            IsSignature(call.self.food_items[i]) =>
                InSeq(call.self.food_items[i].Id, Ids(call.ret.matches))

\* the popular sub-query answered, no filter was given, there is room for
\* every signature name, and a signature item of the catalog is not in the
\* result
C22_Witness ==
    /\ PopularRequest
    /\ call.top_k >= Len(signature_names)
    /\ call.ret.path = "popular"
    /\ DOMAIN call.filters = {}
    /\ \E i \in DOMAIN call.self.food_items :
          /\ IsSignature(call.self.food_items[i])
          /\ ~InSeq(call.self.food_items[i].Id, Ids(call.ret.matches))

\* C23: when a missing signature item is placed into a result that already
\* holds top_k entries, the entry it replaces is never a signature item,
\* whether the backend returned it or the same call forced it in earlier
C23_EvictsOnlyOthers ==
    Returned("find_matching_foods") =>
        \A i \in DOMAIN call.ret.evicted : ~IsSignature(call.ret.evicted[i].food)

\* a call on the popular path, with room for more than one entry, that
\* overwrote a signature item while an item that is not one stays in the
\* result
C23_Witness ==
    /\ Returned("find_matching_foods")
    /\ call.ret.path = "popular"
    /\ call.top_k >= 2
    /\ \E i \in DOMAIN call.ret.evicted : IsSignature(call.ret.evicted[i].food)
    /\ \E i \in DOMAIN call.ret.matches : ~IsSignature(call.ret.matches[i].food)

\* the query with the promotional phrase of _build_contextual_query before it
Promoted(query) ==
    <<"N", "i", "l", "o", "u", "f", "e", "r", " ", "s", "p", "e", "c", "i", "a", "l", " ", "s", "i", "g", "n", "a", "t", "u", "r", "e", " ", "i", "t", "e", "m", "s", " ">> \o query

\* C24: for every original utterance the retriever issues the popular
\* sub-query if and only if the query builder prepended the promotional
\* phrase
C24_SameDetection ==
    (Returned("find_matching_foods") /\ call.ret.path \in {"popular", "boosted", "vector"}) =>
        (call.ret.specials <=> call.ret.enhanced_query = Promoted(call.query))

\* a vector search that was handed a promoted query and did not issue the
\* popular sub-query
C24_Witness ==
    /\ Returned("find_matching_foods")
    /\ call.ret.path = "vector"
    /\ call.ret.matches # <<>>
    /\ call.ret.enhanced_query = Promoted(call.query)
    /\ ~call.ret.specials

(***************************************************************************)
(* C25: the catalog pass of extract_food_ids_from_response adds an item    *)
(* that is not among the candidates only when its full name, or its name   *)
(* up to the parenthesis, stands in the response (case-insensitively); no  *)
(* looser test (word, several words, synonym) adds such an item.           *)
(***************************************************************************)
\* the item has a name and an id that is not blank
ValidItem(food) ==
    /\ Truthy(FoodName(food))
    /\ Truthy(FoodId(food))
    /\ Strip(FoodId(food)) # <<>>

OfferedIds(food_matches) ==
    {Strip(FoodId(food_matches[i].food)) : i \in DOMAIN food_matches}

NamedInFull(food, response) == Contains(Lower(FoodName(food)), Lower(response))

NamedCleaned(food, response) ==
    Contains(CleanName(Lower(FoodName(food))), Lower(response))

C25_StrictCatalogPass ==
    Extracted =>
        \A k \in DOMAIN food_items :
            ( /\ ValidItem(food_items[k])
              /\ Strip(FoodId(food_items[k])) \notin OfferedIds(call.food_matches)
              /\ InSeq(Strip(FoodId(food_items[k])), call.ret) )
            => \/ NamedInFull(food_items[k], call.response)
               \/ NamedCleaned(food_items[k], call.response)

\* an item that was not offered and is named neither in full nor up to the
\* parenthesis is in the output
C25_Witness ==
    /\ Extracted
    /\ call.food_matches # <<>>
    /\ \E k \in DOMAIN food_items :
          /\ ValidItem(food_items[k])
          /\ Strip(FoodId(food_items[k])) \notin OfferedIds(call.food_matches)
          /\ InSeq(Strip(FoodId(food_items[k])), call.ret)
          /\ ~NamedInFull(food_items[k], call.response)
          /\ ~NamedCleaned(food_items[k], call.response)

(***************************************************************************)
(* C26 as stated: every catalog item with a valid id whose full name       *)
(* stands in the response is in the output, among the candidates or not,   *)
(* and also when no candidate was offered.                                 *)
(***************************************************************************)
C26_Original ==
    Extracted =>
        \A k \in DOMAIN food_items :
            (ValidItem(food_items[k]) /\ NamedInFull(food_items[k], call.response))
            => InSeq(Strip(FoodId(food_items[k])), call.ret)

(***************************************************************************)
(* C26 as the code has it: that holds when at least one candidate was      *)
(* offered; with no candidate the output is empty whatever the response    *)
(* names.                                                                  *)
(***************************************************************************)
C26_NamedInFull ==
    Extracted =>
        /\ call.food_matches = <<>> => call.ret = <<>>
        /\ call.food_matches # <<>> =>
              \A k \in DOMAIN food_items :
                  (ValidItem(food_items[k]) /\ NamedInFull(food_items[k], call.response))
                  => InSeq(Strip(FoodId(food_items[k])), call.ret)

\* an item that was not offered, named in full, is in the output
C26_Witness ==
    /\ Extracted
    /\ call.food_matches # <<>>
    /\ \E k \in DOMAIN food_items :
          /\ ValidItem(food_items[k])
          /\ Strip(FoodId(food_items[k])) \notin OfferedIds(call.food_matches)
          /\ NamedInFull(food_items[k], call.response)
          /\ InSeq(Strip(FoodId(food_items[k])), call.ret)

(***************************************************************************)
(* C27 as stated: a candidate that fails the full-name, cleaned-name and   *)
(* several-words methods is still in the output when the longest word of   *)
(* its cleaned name, of more than 4 characters, stands in the response.    *)
(***************************************************************************)
\* the longest word of the cleaned name has more than 4 characters and
\* stands in the response
LongestWordNamed(food, response) ==
    LET words == Split(CleanName(Lower(FoodName(food))))
    IN  \E i \in DOMAIN words :
            /\ Len(words[i]) > 4
            /\ \A j \in DOMAIN words : Len(words[j]) <= Len(words[i])
            /\ Contains(words[i], ReplacePunct(Lower(response)))

\* at least two of the words of more than 3 characters stand in the response
SeveralWordsNamed(food, response) ==
    LET name_words == NameWords(CleanName(Lower(FoodName(food))))
    IN  /\ Len(name_words) >= 2
        /\ WordsFound(ReplacePunct(Lower(response)), name_words) >= 2

C27_Original ==
    Extracted =>
        \A i \in DOMAIN call.food_matches :
            LET food == call.food_matches[i].food
            IN  ( /\ ValidItem(food)
                  /\ ~NamedInFull(food, call.response)
                  /\ ~NamedCleaned(food, call.response)
                  /\ ~SeveralWordsNamed(food, call.response)
                  /\ LongestWordNamed(food, call.response) )
                => InSeq(Strip(FoodId(food)), call.ret)

(***************************************************************************)
(* C27 as the code has it: there is no single-word method.  A candidate    *)
(* that fails the full-name, cleaned-name, synonym and several-words       *)
(* methods is not in the output, its longest word in the response or not.  *)
(***************************************************************************)
C27_NoSingleWord ==
    Extracted =>
        \A i \in DOMAIN call.food_matches :
            LET food == call.food_matches[i].food
            IN  ( /\ ValidItem(food)
                  /\ ~NamedInFull(food, call.response)
                  /\ ~NamedCleaned(food, call.response)
                  /\ ~SynonymMatch(Lower(call.response), CleanName(Lower(FoodName(food))))
                  /\ ~SeveralWordsNamed(food, call.response) )
                => ~InSeq(Strip(FoodId(food)), call.ret)

\* a candidate with its longest word in the response and nothing else is
\* not in the output
C27_Witness ==
    /\ Extracted
    /\ \E i \in DOMAIN call.food_matches :
          LET food == call.food_matches[i].food
          IN  /\ ValidItem(food)
              /\ LongestWordNamed(food, call.response)
              /\ ~SeveralWordsNamed(food, call.response)
              /\ ~InSeq(Strip(FoodId(food)), call.ret)

(***************************************************************************)
(* C28 as stated: for any threads calling wait_if_needed on the one        *)
(* limiter, in any interleaving, the grants are serialized, any two        *)
(* successive returns are at least min_interval apart, and every caller    *)
(* returns in the end.                                                     *)
(***************************************************************************)
\* at most one thread is between `with self.lock` and the return
Serialized ==
    Cardinality({w \in Workers : worker[w].pc \in {"locked", "record", "sleep", "release"}}) <= 1

EveryCallerReturns ==
    \A w \in Workers : (worker[w].pc = "acquire") ~> (worker[w].pc = "idle")

C29_DeletionFinal ==
    [][\A t \in Tasks :
          ( /\ turn[t].pc \in {"responding", "streaming"}
            /\ turn'[t].pc = "done"
            /\ sessions[turn[t].session_id] = NoRef )
          => sessions'[turn[t].session_id] = NoRef]_vars

\* a finished turn and, under its session id, a session that starts with
\* the assistant's answer
C29_Witness ==
    \E t \in Tasks :
        /\ turn[t].pc = "done"
        /\ last.op = "chat"
        /\ sessions[turn[t].session_id] # NoRef
        /\ Len(heap[sessions[turn[t].session_id]].messages) = 1
        /\ heap[sessions[turn[t].session_id]].messages[1].role = "assistant"
        /\ heap[sessions[turn[t].session_id]].messages[1].content = turn[t].full_response
        /\ Len(heap[sessions[turn[t].session_id]].recommendations) = 1

(***************************************************************************)
(* C30: once the most recent recommendation of a session is empty, a turn  *)
(* classified as a follow-up gets no candidates, does not search, and      *)
(* records another empty recommendation, whatever the LLM's answer names.  *)
(***************************************************************************)
\* the recommendations of the session dict turn t holds end with an empty one
LastEventEmpty(t) ==
    LET recommendations == heap[turn[t].session].recommendations
    IN  /\ recommendations # <<>>
        /\ recommendations[Len(recommendations)].food_ids = <<>>

====
